---- MODULE Spec2Model ----
(***************************************************************************)
(* Configuration-resolution layer of the vault-operator API types          *)
(* (pkg/apis/vault/v1alpha1/vault_types.go): the stanza extractor, the HA  *)
(* classifier and the unseal argument synthesizer (UnsealConfig.ToArgs).   *)
(*                                                                         *)
(* A JSON value held in Spec.Config is a tagged record:                    *)
(*   [t |-> "null"], [t |-> "bool", b |-> ..], [t |-> "str", s |-> ..],    *)
(*   [t |-> "other"] (a number or a list), [t |-> "map", m |-> f] with f a *)
(*   function from key strings to JSON values.                             *)
(* A Go pointer is a sequence: <<>> is nil, <<v>> points at v.             *)
(***************************************************************************)
EXTENDS Integers, Sequences, FiniteSets, TLC

VARIABLES
    Config,      \* vault.Spec.Config.Raw, as the JSON text it holds
    UnsealCfg,   \* vault.Spec.UnsealConfig
    Name,        \* vault.ObjectMeta.Name
    Namespace,   \* vault.ObjectMeta.Namespace
    ServiceRegistrationEnabled,  \* vault.Spec.ServiceRegistrationEnabled
    Image,       \* vault.Spec.Image, as the sequence of its characters
    TLSExpiryThreshold,  \* vault.Spec.TLSExpiryThreshold, as the sequence of its characters
    Ingress,     \* vault.Spec.Ingress, a pointer
    LazyMaps,    \* the map and list fields of vault.Spec read through the lazy
                 \* accessors: what each field holds
    heap,        \* the maps allocated, by address: the keys each one holds
    readers,     \* the goroutines reading the lazy accessors: where each one is
                 \* and the container it was returned last
    ret          \* the last call and what it returned

\* The held Vault resource: every field of it, and the maps its fields refer to.
vault ==
    <<Config, UnsealCfg, Name, Namespace, ServiceRegistrationEnabled, Image,
      TLSExpiryThreshold, Ingress, LazyMaps, heap>>

vars == <<vault, readers, ret>>

\* Largest number of keys of the storage stanza in the documents explored.
MaxStorageKeys == 2

\* Largest number of unseal variant pointers set at once in the configurations explored.
MaxVariants == 2

-----------------------------------------------------------------------------
(* JSON values and the conversions of github.com/spf13/cast                *)

JNull == [t |-> "null"]
JOther == [t |-> "other"]
JBool(b) == [t |-> "bool", b |-> b]
JStr(s) == [t |-> "str", s |-> s]
JMap(m) == [t |-> "map", m |-> m]

EmptyMap == [k \in {} |-> JNull]

\* m[k] of a Go map[string]interface{}: the nil interface when k is no key.
Index(m, k) == IF k \in DOMAIN m THEN m[k] ELSE JNull

\* cast.ToStringMap: the map itself, and an empty map for anything that is no map.
\* (cast also decodes a string that holds a JSON object; the documents explored
\* hold no string where a stanza or a backend's parameters are expected.)
ToStringMap(v) == IF v.t = "map" THEN v.m ELSE EmptyMap

\* The strings strconv.ParseBool reads as true.
ParseBoolTrue == {"1", "t", "T", "TRUE", "true", "True"}

\* cast.ToBool: a bool is itself, a string goes through strconv.ParseBool, nil
\* and everything that fails to convert are false. (The documents explored hold
\* no number under ha_enabled.)
ToBool(v) ==
    CASE v.t = "bool" -> v.b
      [] v.t = "str" -> v.s \in ParseBoolTrue
      [] OTHER -> FALSE

\* HAStorageTypes is the set of storage backends supporting High Availability
HAStorageTypes ==
    {"consul", "dynamodb", "etcd", "gcs", "mysql", "postgresql", "raft", "oci",
     "spanner", "zookeeper"}

-----------------------------------------------------------------------------
(* Stanza extractor and HA classifier                                      *)

\* json.Unmarshal into a nil map, the error dropped: the members of a JSON
\* object, and the nil map for a text that is no JSON object.
GetVaultConfig(raw) == IF raw.t = "map" THEN raw.m ELSE EmptyMap

getStorage(raw) == ToStringMap(Index(GetVaultConfig(raw), "storage"))

getHAStorage(raw) == ToStringMap(Index(GetVaultConfig(raw), "ha_storage"))

\* hasHAStorageStanza as it would be with a test for the key instead of the length.
hasHAStorageStanzaByKey(raw) == "ha_storage" \in DOMAIN GetVaultConfig(raw)

hasHAStorageStanza(raw) == DOMAIN getHAStorage(raw) # {}

\* reflect.Value.MapKeys returns the keys in an unspecified order, drawn anew
\* by every call: keys[0] is any key of the map.
FirstKeys(m) == IF DOMAIN m = {} THEN {""} ELSE DOMAIN m

\* The values one call of GetStorageType may return.
StorageTypes(raw) == FirstKeys(getStorage(raw))

\* The values one call of GetHAStorageType may return.
HAStorageTypeValues(raw) == FirstKeys(getHAStorage(raw))

\* HasStorageHAEnabled as it would be with consul alone always HA.
HasStorageHAEnabledNoRaft(raw, storageType) ==
    LET storageSpecs == ToStringMap(Index(getStorage(raw), storageType))
    IN  storageType = "consul" \/ ToBool(Index(storageSpecs, "ha_enabled"))

\* HasStorageHAEnabled, given the key its own call of GetStorageType returned.
HasStorageHAEnabledOf(raw, storageType) ==
    LET storageSpecs == ToStringMap(Index(getStorage(raw), storageType))
    IN  \/ storageType = "consul"
        \/ storageType = "raft"
        \/ ToBool(Index(storageSpecs, "ha_enabled"))

\* HasHAStorage, given the key GetStorageType returned to it (typeKey) and the
\* key GetStorageType returned inside HasStorageHAEnabled (flagKey).
HasHAStorageOf(raw, typeKey, flagKey) ==
    IF typeKey \in HAStorageTypes /\ HasStorageHAEnabledOf(raw, flagKey)
    THEN TRUE
    ELSE hasHAStorageStanza(raw)

-----------------------------------------------------------------------------
(* Unseal argument synthesizer                                             *)

\* The bytes of the strings that label entries are made of: sort.Strings
\* compares strings byte by byte.
Bytes(s) ==
    CASE s = "app.kubernetes.io/name" ->
           <<97, 112, 112, 46, 107, 117, 98, 101, 114, 110, 101, 116, 101, 115, 46, 105, 111, 47, 110, 97, 109, 101>>
      [] s = "vault_cr" ->
           <<118, 97, 117, 108, 116, 95, 99, 114>>
      [] s = "vault" ->
           <<118, 97, 117, 108, 116>>
      [] s = "my-vault" ->
           <<109, 121, 45, 118, 97, 117, 108, 116>>

\* The byte of "=".
EqualsSign == <<61>>

RECURSIVE BytesLess(_, _)
\* a < b of two Go strings, given as their bytes.
BytesLess(a, b) ==
    IF b = <<>> THEN FALSE
    ELSE IF a = <<>> THEN TRUE
    ELSE IF a[1] # b[1] THEN a[1] < b[1]
    ELSE BytesLess(Tail(a), Tail(b))

\* LabelsForVault returns the labels for selecting the resources belonging to
\* the given vault CR name.
LabelsForVault(name) ==
    [k \in {"app.kubernetes.io/name", "vault_cr"} |->
        IF k = "app.kubernetes.io/name" THEN "vault" ELSE name]

\* The orders in which a range over the map may visit its keys.
RangeOrders(m) ==
    {o \in [1..Cardinality(DOMAIN m) -> DOMAIN m] :
        \A i, j \in DOMAIN o : i # j => o[i] # o[j]}

\* An element k+"="+v of secretLabels is kept as the pair, its text and its
\* bytes derived from it.
EntryText(e) == e.k \o "=" \o e.v
EntryBytes(e) == Bytes(e.k) \o EqualsSign \o Bytes(e.v)

RECURSIVE Insert(_, _)
Insert(e, sorted) ==
    IF sorted = <<>> THEN <<e>>
    ELSE IF BytesLess(EntryBytes(e), EntryBytes(Head(sorted)))
         THEN <<e>> \o sorted
         ELSE <<Head(sorted)>> \o Insert(e, Tail(sorted))

\* secretLabels left in the order of the range, sort.Strings not called.
SortStringsSkipped(entries) == entries

RECURSIVE SortStrings(_)
\* sort.Strings: the entries in ascending order of their text.
SortStrings(entries) ==
    IF entries = <<>> THEN <<>>
    ELSE Insert(Head(entries), SortStrings(Tail(entries)))

RECURSIVE Join(_, _)
\* strings.Join
Join(texts, sep) ==
    IF texts = <<>> THEN ""
    ELSE IF Len(texts) = 1 THEN texts[1]
    ELSE texts[1] \o sep \o Join(Tail(texts), sep)

\* The value of --k8s-secret-labels when the range over LabelsForVault visits
\* the keys in the given order.
SecretLabels(name, order) ==
    LET labels == LabelsForVault(name)
        secretLabels == [i \in DOMAIN order |-> [k |-> order[i], v |-> labels[order[i]]]]
        sorted == SortStrings(secretLabels)
    IN  Join([i \in DOMAIN sorted |-> EntryText(sorted[i])], ",")

\* The option flags as they would be with SecretShares emitted whenever set.
OptionArgsSharesUnchecked(options) ==
    (IF options.PreFlightChecks # <<>> /\ ~options.PreFlightChecks[1]
     THEN <<"--pre-flight-checks=false">> ELSE <<>>)
    \o (IF options.StoreRootToken # <<>> /\ ~options.StoreRootToken[1]
        THEN <<"--store-root-token=false">> ELSE <<>>)
    \o (IF options.SecretShares # <<>>
        THEN <<"--secret-shares", ToString(options.SecretShares[1])>> ELSE <<>>)
    \o (IF options.SecretThreshold # <<>> /\ options.SecretThreshold[1] > 0
        THEN <<"--secret-threshold", ToString(options.SecretThreshold[1])>> ELSE <<>>)

\* ToArgs, lines 683-702: the flags of the options common to all backends.
OptionArgs(options) ==
    (IF options.PreFlightChecks # <<>> /\ ~options.PreFlightChecks[1]
     THEN <<"--pre-flight-checks=false">> ELSE <<>>)
    \o (IF options.StoreRootToken # <<>> /\ ~options.StoreRootToken[1]
        THEN <<"--store-root-token=false">> ELSE <<>>)
    \o (IF options.SecretShares # <<>> /\ options.SecretShares[1] > 0
        THEN <<"--secret-shares", ToString(options.SecretShares[1])>> ELSE <<>>)
    \o (IF options.SecretThreshold # <<>> /\ options.SecretThreshold[1] > 0
        THEN <<"--secret-threshold", ToString(options.SecretThreshold[1])>> ELSE <<>>)

GoogleArgs(g) ==
    <<"--mode", "google-cloud-kms-gcs",
      "--google-cloud-kms-key-ring", g.KMSKeyRing,
      "--google-cloud-kms-crypto-key", g.KMSCryptoKey,
      "--google-cloud-kms-location", g.KMSLocation,
      "--google-cloud-kms-project", g.KMSProject,
      "--google-cloud-storage-bucket", g.StorageBucket>>

AzureArgs(a) == <<"--mode", "azure-key-vault", "--azure-key-vault-name", a.KeyVaultName>>

OCIArgs(o) ==
    <<"--mode", "oci",
      "--oci-key-ocid", o.KeyOCID,
      "--oci-cryptographic-endpoint", o.CryptographicEndpoint,
      "--oci-bucket-namespace", o.BucketNamespace,
      "--oci-bucket-name", o.BucketName,
      "--oci-bucket-prefix", o.BucketPrefix>>

\* AWSArgs leaving out the flags whose field is empty.
AWSArgsEmptyOmitted(a) ==
    LET pair(flag, value) == IF value # "" THEN <<flag, value>> ELSE <<>>
    IN  <<"--mode", "aws-kms-s3">>
        \o pair("--aws-kms-key-id", a.KMSKeyID) \o pair("--aws-kms-region", a.KMSRegion)
        \o pair("--aws-s3-bucket", a.S3Bucket) \o pair("--aws-s3-prefix", a.S3Prefix)
        \o pair("--aws-s3-region", a.S3Region) \o pair("--aws-s3-sse-algo", a.S3SSE)
        \o pair("--aws-kms-encryption-context", a.KMSEncryptionContext)

AWSArgs(a) ==
    <<"--mode", "aws-kms-s3",
      "--aws-kms-key-id", a.KMSKeyID,
      "--aws-kms-region", a.KMSRegion,
      "--aws-s3-bucket", a.S3Bucket,
      "--aws-s3-prefix", a.S3Prefix,
      "--aws-s3-region", a.S3Region,
      "--aws-s3-sse-algo", a.S3SSE>>
    \o (IF a.KMSEncryptionContext # ""
        THEN <<"--aws-kms-encryption-context", a.KMSEncryptionContext>> ELSE <<>>)

AlibabaArgs(a) ==
    <<"--mode", "alibaba-kms-oss",
      "--alibaba-kms-region", a.KMSRegion,
      "--alibaba-kms-key-id", a.KMSKeyID,
      "--alibaba-oss-endpoint", a.OSSEndpoint,
      "--alibaba-oss-bucket", a.OSSBucket,
      "--alibaba-oss-prefix", a.OSSPrefix>>

\* The Vault branch as it would be with the role tested before the token.
VaultArgsRoleFirst(v) ==
    <<"--mode", "vault", "--vault-addr", v.Address,
      "--vault-unseal-keys-path", v.UnsealKeysPath>>
    \o (IF v.Role # "" THEN <<"--vault-role", v.Role, "--vault-auth-path", v.AuthPath>>
        ELSE IF v.Token # "" THEN <<"--vault-token", v.Token>>
        ELSE IF v.TokenPath # "" THEN <<"--vault-token-path", v.TokenPath>>
        ELSE <<>>)

\* ToArgs, lines 780-807: the remote Vault variant.
VaultArgs(v) ==
    <<"--mode", "vault", "--vault-addr", v.Address,
      "--vault-unseal-keys-path", v.UnsealKeysPath>>
    \o (IF v.Token # "" THEN <<"--vault-token", v.Token>>
        ELSE IF v.TokenPath # "" THEN <<"--vault-token-path", v.TokenPath>>
        ELSE IF v.Role # "" THEN <<"--vault-role", v.Role, "--vault-auth-path", v.AuthPath>>
        ELSE <<>>)

\* The HSM mode as it would be with || for && between namespace and name.
HSMModeEitherSet(k) ==
    IF k.SecretNamespace # "" \/ k.SecretName # "" THEN "hsm-k8s" ELSE "hsm"

\* ToArgs, lines 809-812: the mode of the HSM variant.
HSMMode(k) ==
    IF k.SecretNamespace # "" /\ k.SecretName # "" THEN "hsm-k8s" ELSE "hsm"

HSMArgs(h, k, name, order) ==
    LET mode == HSMMode(k)
    IN  <<"--mode", mode,
          "--hsm-module-path", h.ModulePath,
          "--hsm-slot-id", ToString(h.SlotID),
          "--hsm-key-label", h.KeyLabel>>
        \o (IF h.Pin # "" THEN <<"--hsm-pin", h.Pin>> ELSE <<>>)
        \o (IF h.TokenLabel # "" THEN <<"--hsm-token-label", h.TokenLabel>> ELSE <<>>)
        \o (IF mode = "hsm-k8s"
            THEN <<"--k8s-secret-namespace", k.SecretNamespace,
                   "--k8s-secret-name", k.SecretName,
                   "--k8s-secret-labels", SecretLabels(name, order)>>
            ELSE <<>>)

\* The default branch as it would be with both defaults applied unless both fields are set.
KubernetesArgsCoupledDefaults(k, name, namespace, order) ==
    LET useDefaults == k.SecretNamespace = "" \/ k.SecretName = ""
        secretNamespace == IF useDefaults THEN namespace ELSE k.SecretNamespace
        secretName == IF useDefaults THEN name \o "-unseal-keys" ELSE k.SecretName
    IN  <<"--mode", "k8s",
          "--k8s-secret-namespace", secretNamespace,
          "--k8s-secret-name", secretName,
          "--k8s-secret-labels", SecretLabels(name, order)>>

\* ToArgs, lines 856-884: the default, Kubernetes Secret based mode.
KubernetesArgs(k, name, namespace, order) ==
    LET secretNamespace == IF k.SecretNamespace # "" THEN k.SecretNamespace ELSE namespace
        secretName == IF k.SecretName # "" THEN k.SecretName ELSE name \o "-unseal-keys"
    IN  <<"--mode", "k8s",
          "--k8s-secret-namespace", secretNamespace,
          "--k8s-secret-name", secretName,
          "--k8s-secret-labels", SecretLabels(name, order)>>

\* The variant chain as it would be with independent ifs for the else-ifs.
BackendArgsAll(usc, name, namespace, order) ==
    (IF usc.Google # <<>> THEN GoogleArgs(usc.Google[1]) ELSE <<>>)
    \o (IF usc.Azure # <<>> THEN AzureArgs(usc.Azure[1]) ELSE <<>>)
    \o (IF usc.OCI # <<>> THEN OCIArgs(usc.OCI[1]) ELSE <<>>)
    \o (IF usc.AWS # <<>> THEN AWSArgs(usc.AWS[1]) ELSE <<>>)
    \o (IF usc.Alibaba # <<>> THEN AlibabaArgs(usc.Alibaba[1]) ELSE <<>>)
    \o (IF usc.Vault # <<>> THEN VaultArgs(usc.Vault[1]) ELSE <<>>)
    \o (IF usc.HSM # <<>> THEN HSMArgs(usc.HSM[1], usc.Kubernetes, name, order) ELSE <<>>)
    \o KubernetesArgs(usc.Kubernetes, name, namespace, order)

\* The variant chain as it would be with the AWS branch moved to the front.
BackendArgsAWSFirst(usc, name, namespace, order) ==
    IF usc.AWS # <<>> THEN AWSArgs(usc.AWS[1])
    ELSE IF usc.Google # <<>> THEN GoogleArgs(usc.Google[1])
    ELSE IF usc.Azure # <<>> THEN AzureArgs(usc.Azure[1])
    ELSE IF usc.OCI # <<>> THEN OCIArgs(usc.OCI[1])
    ELSE IF usc.Alibaba # <<>> THEN AlibabaArgs(usc.Alibaba[1])
    ELSE IF usc.Vault # <<>> THEN VaultArgs(usc.Vault[1])
    ELSE IF usc.HSM # <<>> THEN HSMArgs(usc.HSM[1], usc.Kubernetes, name, order)
    ELSE KubernetesArgs(usc.Kubernetes, name, namespace, order)

\* ToArgs, lines 704-884: the if / else-if chain over the variant pointers.
BackendArgs(usc, name, namespace, order) ==
    IF usc.Google # <<>> THEN GoogleArgs(usc.Google[1])
    ELSE IF usc.Azure # <<>> THEN AzureArgs(usc.Azure[1])
    ELSE IF usc.OCI # <<>> THEN OCIArgs(usc.OCI[1])
    ELSE IF usc.AWS # <<>> THEN AWSArgs(usc.AWS[1])
    ELSE IF usc.Alibaba # <<>> THEN AlibabaArgs(usc.Alibaba[1])
    ELSE IF usc.Vault # <<>> THEN VaultArgs(usc.Vault[1])
    ELSE IF usc.HSM # <<>> THEN HSMArgs(usc.HSM[1], usc.Kubernetes, name, order)
    ELSE KubernetesArgs(usc.Kubernetes, name, namespace, order)

\* ToArgs returns the UnsealConfig as and argument array for bank-vaults, the
\* range over LabelsForVault visiting the keys in the given order.
ToArgsOf(usc, name, namespace, order) ==
    OptionArgs(usc.Options) \o BackendArgs(usc, name, namespace, order)

-----------------------------------------------------------------------------
(* The configuration documents explored                                    *)

StorageKeyNames == {"consul", "raft", "etcd", "file"}

\* What a backend's entry may hold: no map at all, or its parameters.
BackendParams ==
    {JNull, JOther, JMap(EmptyMap)}
    \cup {JMap([k \in {"ha_enabled"} |-> v]) :
            v \in {JBool(TRUE), JBool(FALSE), JStr("true"), JStr("yes")}}

StorageStanzas ==
    {JNull, JOther}
    \cup {JMap(f) : f \in UNION {[ks -> BackendParams] :
            ks \in {s \in SUBSET StorageKeyNames : Cardinality(s) <= MaxStorageKeys}}}

HAStorageStanzas ==
    {JOther, JMap(EmptyMap),
     JMap([k \in {"raft"} |-> JMap(EmptyMap)]),
     JMap([k \in {"file"} |-> JMap(EmptyMap)])}

\* A document with the given stanzas; <<>> leaves the stanza out.
Document(storage, haStorage) ==
    JMap([k \in ({"storage" : i \in 1..Len(storage)}
                 \cup {"ha_storage" : i \in 1..Len(haStorage)}) |->
            IF k = "storage" THEN storage[1] ELSE haStorage[1]])

Documents ==
    {JOther}
    \cup {Document(s, h) :
            s \in {<<>>} \cup {<<x>> : x \in StorageStanzas},
            h \in {<<>>} \cup {<<x>> : x \in HAStorageStanzas}}

NoCall == [op |-> "none"]

\* The UnsealConfig of a resource that declares none.
ZeroUnsealConfig ==
    [Options |-> [PreFlightChecks |-> <<>>, StoreRootToken |-> <<>>,
                  SecretThreshold |-> <<>>, SecretShares |-> <<>>],
     Kubernetes |-> [SecretNamespace |-> "", SecretName |-> ""],
     Google |-> <<>>, Alibaba |-> <<>>, Azure |-> <<>>, AWS |-> <<>>,
     OCI |-> <<>>, Vault |-> <<>>, HSM |-> <<>>]

\* The document of a resource whose configuration is the empty object.
EmptyDocument == JMap(EmptyMap)

\* The map fields behind the lazy accessors.
LazyFieldNames ==
    {"Annotations", "VaultAnnotations", "VaultLabels", "VaultConfigurerAnnotations",
     "VaultConfigurerLabels", "WatchedSecretsLabels", "WatchedSecretsAnnotations"}

\* A resource that declares no image, threshold or service registration.
NoResolveFields ==
    /\ ServiceRegistrationEnabled = FALSE
    /\ Image = <<>>
    /\ TLSExpiryThreshold = <<>>

\* The nil map and the nil slice.
Nil == [kind |-> "nil"]

\* A resource whose lazily initialised fields are all nil, with nobody
\* reading them.
NoLazyMaps ==
    /\ LazyMaps = [f \in LazyFieldNames |-> Nil]
    /\ heap = <<>>
    /\ readers = <<>>

InitHA ==
    /\ Config \in Documents
    /\ UnsealCfg = ZeroUnsealConfig
    /\ Name = "vault"
    /\ Namespace = "default"
    /\ NoResolveFields
    /\ Ingress = <<>>
    /\ NoLazyMaps
    /\ ret = NoCall

GetStorageType ==
    /\ \E t \in StorageTypes(Config) :
          ret' = [op |-> "GetStorageType", val |-> t]
    /\ UNCHANGED <<vault, readers>>

GetHAStorageType ==
    /\ \E t \in HAStorageTypeValues(Config) :
          ret' = [op |-> "GetHAStorageType", val |-> t]
    /\ UNCHANGED <<vault, readers>>

HasStorageHAEnabled ==
    /\ \E t \in StorageTypes(Config) :
          ret' = [op |-> "HasStorageHAEnabled", val |-> HasStorageHAEnabledOf(Config, t)]
    /\ UNCHANGED <<vault, readers>>

HasHAStorage ==
    /\ \E typeKey \in StorageTypes(Config), flagKey \in StorageTypes(Config) :
          ret' = [op |-> "HasHAStorage",
                  val |-> HasHAStorageOf(Config, typeKey, flagKey)]
    /\ UNCHANGED <<vault, readers>>

NextHA == GetStorageType \/ GetHAStorageType \/ HasStorageHAEnabled \/ HasHAStorage

SpecHA == InitHA /\ [][NextHA]_vars

-----------------------------------------------------------------------------
(* The unseal configurations explored                                      *)

VariantNames == {"Google", "Azure", "OCI", "AWS", "Alibaba", "Vault", "HSM"}

BoolPointers == {<<>>, <<TRUE>>, <<FALSE>>}

UintPointers == {<<>>, <<0>>, <<5>>}

UnsealOptionsValues ==
    [PreFlightChecks : BoolPointers, StoreRootToken : BoolPointers,
     SecretThreshold : UintPointers, SecretShares : UintPointers]

KubernetesValues == [SecretNamespace : {"", "vault-infra"}, SecretName : {"", "keys"}]

GoogleValues ==
    {[KMSKeyRing |-> "ring", KMSCryptoKey |-> "key", KMSLocation |-> "global",
      KMSProject |-> "project", StorageBucket |-> "bucket"]}

AzureValues == {[KeyVaultName |-> "kv"]}

OCIValues ==
    {[KeyOCID |-> "ocid", CryptographicEndpoint |-> "endpoint", BucketName |-> "bucket",
      BucketNamespace |-> "", BucketPrefix |-> ""]}

AWSValues ==
    {[KMSKeyID |-> "k1", KMSRegion |-> r, KMSEncryptionContext |-> c,
      S3Bucket |-> "b1", S3Prefix |-> "p1", S3Region |-> "", S3SSE |-> ""] :
        r \in {"", "r1"}, c \in {"", "a=b"}}

AlibabaValues ==
    {[KMSRegion |-> "eu-central-1", KMSKeyID |-> "id", OSSEndpoint |-> "oss",
      OSSBucket |-> "bucket", OSSPrefix |-> ""]}

VaultValues ==
    [Address : {"https://central:8200"}, UnsealKeysPath : {"secret/keys"},
     Role : {"", "unsealer"}, AuthPath : {"kubernetes"},
     TokenPath : {"", "/token"}, Token : {"", "s.token"}]

HSMValues ==
    [Daemon : {FALSE}, ModulePath : {"/usr/lib/opensc-pkcs11.so"}, SlotID : {0},
     TokenLabel : {"", "label"}, Pin : {"", "1234"}, KeyLabel : {"bank-vaults"}]

\* The values of a variant pointer: nil, or a pointer when the variant is chosen.
Pointers(chosen, variant, values) ==
    IF variant \in chosen THEN {<<v>> : v \in values} ELSE {<<>>}

UnsealConfigs ==
    UNION {[Options : UnsealOptionsValues,
            Kubernetes : KubernetesValues,
            Google : Pointers(chosen, "Google", GoogleValues),
            Alibaba : Pointers(chosen, "Alibaba", AlibabaValues),
            Azure : Pointers(chosen, "Azure", AzureValues),
            AWS : Pointers(chosen, "AWS", AWSValues),
            OCI : Pointers(chosen, "OCI", OCIValues),
            Vault : Pointers(chosen, "Vault", VaultValues),
            HSM : Pointers(chosen, "HSM", HSMValues)] :
        chosen \in {c \in SUBSET VariantNames : Cardinality(c) <= MaxVariants}}

InitUnseal ==
    /\ Config = EmptyDocument
    /\ UnsealCfg \in UnsealConfigs
    /\ Name \in {"vault", "my-vault"}
    /\ Namespace = "default"
    /\ NoResolveFields
    /\ Ingress = <<>>
    /\ NoLazyMaps
    /\ ret = NoCall

ToArgs ==
    /\ \E order \in RangeOrders(LabelsForVault(Name)) :
          ret' = [op |-> "ToArgs", val |-> ToArgsOf(UnsealCfg, Name, Namespace, order)]
    /\ UNCHANGED <<vault, readers>>

NextUnseal == ToArgs

SpecUnseal == InitUnseal /\ [][NextUnseal]_vars

-----------------------------------------------------------------------------
(* Properties of the HA classifier                                         *)

\* The document parses as an object holding the named stanza as a map.
HasStanzaMap(raw, name) ==
    /\ raw.t = "map"
    /\ name \in DOMAIN raw.m
    /\ raw.m[name].t = "map"

\* ha_enabled is true in the parameters the storage stanza holds for backend t:
\* the JSON value true, or a string that reads as true.
HAEnabledFlag(raw, t) ==
    /\ HasStanzaMap(raw, "storage")
    /\ t \in DOMAIN raw.m["storage"].m
    /\ LET p == raw.m["storage"].m[t]
       IN  /\ p.t = "map"
           /\ "ha_enabled" \in DOMAIN p.m
           /\ \/ p.m["ha_enabled"] = JBool(TRUE)
              \/ p.m["ha_enabled"].t = "str" /\ p.m["ha_enabled"].s \in ParseBoolTrue

\* Path (a) of the HA verdict for storage backend type t.
HAByBackend(raw, t) ==
    /\ t \in HAStorageTypes
    /\ (HAEnabledFlag(raw, t) \/ t \in {"consul", "raft"})

\* Path (b) of the HA verdict: a non-empty ha_storage stanza.
HAByStanza(raw) ==
    /\ HasStanzaMap(raw, "ha_storage")
    /\ DOMAIN raw.m["ha_storage"].m # {}

\* The keys of the storage stanza, none when there is no such map.
StorageStanzaKeys(raw) ==
    IF HasStanzaMap(raw, "storage") THEN DOMAIN raw.m["storage"].m ELSE {}

\* The storage stanza is absent, not a map or empty, or the document does not parse.
NoStorageStanza(raw) == StorageStanzaKeys(raw) = {}

\* The storage stanza is a map with the single key t.
SingleStorageKey(raw, t) == StorageStanzaKeys(raw) = {t}

\* C1: for every document, HasHAStorage returns true if and only if the storage
\* backend type is in HAStorageTypes and (ha_enabled is true in its parameters or
\* it is consul or raft), or the ha_storage stanza is non-empty. The storage
\* backend type is read as any key of the storage stanza.
C1_HasHAStorageIff ==
    ret.op = "HasHAStorage" =>
        \/ /\ StorageStanzaKeys(Config) = {}
           /\ ret.val = HAByStanza(Config)
        \/ \E t \in StorageStanzaKeys(Config) :
              ret.val = (HAByBackend(Config, t) \/ HAByStanza(Config))

\* C1 on the documents whose storage stanza has at most one key: there the
\* verdict is exactly path (a) or path (b).
C1_AtMostOneKey ==
    (ret.op = "HasHAStorage" /\ Cardinality(StorageStanzaKeys(Config)) <= 1) =>
        ret.val = (\/ \E t \in StorageStanzaKeys(Config) : HAByBackend(Config, t)
                   \/ HAByStanza(Config))

\* C2 as stated: for a storage type of HAStorageTypes the verdict is true if and
\* only if ha_enabled is true or the type is consul or raft.
C2_VerdictIffFlag ==
    \A t \in HAStorageTypes :
        (ret.op = "HasHAStorage" /\ SingleStorageKey(Config, t)) =>
            ret.val = (HAEnabledFlag(Config, t) \/ t \in {"consul", "raft"})

\* C2 amended: for a storage stanza whose single key is a type of HAStorageTypes,
\* in a document with no non-empty ha_storage stanza, the verdict is true if and
\* only if ha_enabled is true or the type is consul or raft.
C2_VerdictIffFlagNoHAStanza ==
    \A t \in HAStorageTypes :
        (ret.op = "HasHAStorage" /\ SingleStorageKey(Config, t) /\ ~HAByStanza(Config)) =>
            ret.val = (HAEnabledFlag(Config, t) \/ t \in {"consul", "raft"})

\* A storage stanza {"etcd": {"ha_enabled": "true"}} and no ha_storage stanza give true.
C2_Witness ==
    /\ ret.op = "HasHAStorage"
    /\ SingleStorageKey(Config, "etcd")
    /\ HAEnabledFlag(Config, "etcd")
    /\ ~HAByStanza(Config)
    /\ ret.val = TRUE

-----------------------------------------------------------------------------
(* Properties of the unseal argument synthesizer                           *)

\* The variants in the order the claims give them.
Priority == <<"Google", "Azure", "OCI", "AWS", "Alibaba", "Vault", "HSM">>

\* The mode names a variant may emit.
ModesOf(variant) ==
    CASE variant = "Google" -> {"google-cloud-kms-gcs"}
      [] variant = "Azure" -> {"azure-key-vault"}
      [] variant = "OCI" -> {"oci"}
      [] variant = "AWS" -> {"aws-kms-s3"}
      [] variant = "Alibaba" -> {"alibaba-kms-oss"}
      [] variant = "Vault" -> {"vault"}
      [] variant = "HSM" -> {"hsm", "hsm-k8s"}

\* The flags that belong to a variant.
FlagsOf(variant) ==
    CASE variant = "Google" ->
            {"--google-cloud-kms-key-ring", "--google-cloud-kms-crypto-key",
             "--google-cloud-kms-location", "--google-cloud-kms-project",
             "--google-cloud-storage-bucket"}
      [] variant = "Azure" -> {"--azure-key-vault-name"}
      [] variant = "OCI" ->
            {"--oci-key-ocid", "--oci-cryptographic-endpoint", "--oci-bucket-namespace",
             "--oci-bucket-name", "--oci-bucket-prefix"}
      [] variant = "AWS" ->
            {"--aws-kms-key-id", "--aws-kms-region", "--aws-s3-bucket", "--aws-s3-prefix",
             "--aws-s3-region", "--aws-s3-sse-algo", "--aws-kms-encryption-context"}
      [] variant = "Alibaba" ->
            {"--alibaba-kms-region", "--alibaba-kms-key-id", "--alibaba-oss-endpoint",
             "--alibaba-oss-bucket", "--alibaba-oss-prefix"}
      [] variant = "Vault" ->
            {"--vault-addr", "--vault-unseal-keys-path", "--vault-token",
             "--vault-token-path", "--vault-role", "--vault-auth-path"}
      [] variant = "HSM" ->
            {"--hsm-module-path", "--hsm-slot-id", "--hsm-key-label", "--hsm-pin",
             "--hsm-token-label"}

K8sFlags == {"--k8s-secret-namespace", "--k8s-secret-name", "--k8s-secret-labels"}

\* The places of a token in an argument list.
Pos(args, token) == {i \in 1..Len(args) : args[i] = token}

Tokens(args) == {args[i] : i \in 1..Len(args)}

\* The token that follows the only occurrence of a flag.
ValueOf(args, flag) == args[(CHOOSE i \in Pos(args, flag) : TRUE) + 1]

\* The flag is in the list once, followed by the value.
HasPair(args, flag, value) ==
    /\ Cardinality(Pos(args, flag)) = 1
    /\ \A i \in Pos(args, flag) : i < Len(args) /\ args[i + 1] = value

\* The places in Priority of the variants the configuration sets.
SetVariants(usc) == {i \in 1..Len(Priority) : usc[Priority[i]] # <<>>}

\* The first variant set, in the order of Priority.
FirstVariant(usc) ==
    Priority[CHOOSE i \in SetVariants(usc) : \A j \in SetVariants(usc) : i <= j]

\* The variant set first is the given one.
Selects(usc, variant) == SetVariants(usc) # {} /\ FirstVariant(usc) = variant

\* C4: the list ToArgs returns holds at most one --mode token pair, whichever
\* variant fields are set.
C4_AtMostOneMode ==
    ret.op = "ToArgs" => Cardinality(Pos(ret.val, "--mode")) <= 1

\* Two variants are set at once and the list holds one --mode pair.
C4_Witness ==
    /\ ret.op = "ToArgs"
    /\ UnsealCfg.Google # <<>>
    /\ UnsealCfg.HSM # <<>>
    /\ Cardinality(Pos(ret.val, "--mode")) = 1

\* C5: the mode emitted is that of the first variant set in the order Google,
\* Azure, OCI, AWS, Alibaba, Vault, HSM, no flag of a later variant is emitted,
\* and the mode is k8s if and only if none of the seven is set.
C5_FirstMatchWins ==
    ret.op = "ToArgs" =>
        /\ Pos(ret.val, "--mode") # {}
        /\ LET mode == ValueOf(ret.val, "--mode")
               set == SetVariants(UnsealCfg)
           IN  /\ (mode = "k8s") <=> (set = {})
               /\ set # {} =>
                    /\ mode \in ModesOf(FirstVariant(UnsealCfg))
                    /\ \A j \in 1..Len(Priority) :
                          (\E i \in set : i < j) =>
                              Tokens(ret.val) \cap FlagsOf(Priority[j]) = {}

\* OCI and AWS are both set: the mode is oci and no AWS flag is emitted.
C5_Witness ==
    /\ ret.op = "ToArgs"
    /\ UnsealCfg.OCI # <<>>
    /\ UnsealCfg.AWS # <<>>
    /\ ValueOf(ret.val, "--mode") = "oci"
    /\ "--aws-kms-key-id" \notin Tokens(ret.val)

\* C6: the option tokens come before --mode, in the order --pre-flight-checks=false,
\* --store-root-token=false, --secret-shares n, --secret-threshold n, each emitted
\* if and only if its option is set and false (the toggles) or set and above 0
\* (the counts), whichever variant is chosen.
C6_OptionsFirst ==
    ret.op = "ToArgs" =>
        LET args == ret.val
            o == UnsealCfg.Options
            pf == Pos(args, "--pre-flight-checks=false")
            st == Pos(args, "--store-root-token=false")
            sh == Pos(args, "--secret-shares")
            th == Pos(args, "--secret-threshold")
        IN  /\ (pf # {}) <=> (o.PreFlightChecks = <<FALSE>>)
            /\ (st # {}) <=> (o.StoreRootToken = <<FALSE>>)
            /\ (sh # {}) <=> (o.SecretShares # <<>> /\ o.SecretShares[1] > 0)
            /\ (th # {}) <=> (o.SecretThreshold # <<>> /\ o.SecretThreshold[1] > 0)
            /\ sh # {} => HasPair(args, "--secret-shares", ToString(o.SecretShares[1]))
            /\ th # {} => HasPair(args, "--secret-threshold", ToString(o.SecretThreshold[1]))
            /\ \A i \in pf \cup st \cup sh \cup th : \A m \in Pos(args, "--mode") : i < m
            /\ \A i \in pf : \A j \in st \cup sh \cup th : i < j
            /\ \A i \in st : \A j \in sh \cup th : i < j
            /\ \A i \in sh : \A j \in th : i < j
            /\ \A m \in Pos(args, "--mode") :
                  m = 1 + Cardinality(pf) + Cardinality(st)
                        + 2 * Cardinality(sh) + 2 * Cardinality(th)

\* All four options are emitted, before the mode of the AWS variant.
C6_Witness ==
    /\ ret.op = "ToArgs"
    /\ UnsealCfg.AWS # <<>>
    /\ SubSeq(ret.val, 1, 8) =
          <<"--pre-flight-checks=false", "--store-root-token=false",
            "--secret-shares", "5", "--secret-threshold", "5", "--mode", "aws-kms-s3">>

\* The credential forms of the remote Vault variant found in an argument list.
VaultForms(args, v) ==
    {f \in {"token", "token-path", "role"} :
        \/ f = "token" /\ HasPair(args, "--vault-token", v.Token)
        \/ f = "token-path" /\ HasPair(args, "--vault-token-path", v.TokenPath)
        \/ /\ f = "role"
           /\ HasPair(args, "--vault-role", v.Role)
           /\ HasPair(args, "--vault-auth-path", v.AuthPath)}

\* Some token of a credential form is in the list.
VaultFormTouched(args, f) ==
    CASE f = "token" -> "--vault-token" \in Tokens(args)
      [] f = "token-path" -> "--vault-token-path" \in Tokens(args)
      [] f = "role" -> {"--vault-role", "--vault-auth-path"} \cap Tokens(args) # {}

\* C7 as stated: for the remote Vault variant exactly one of --vault-token,
\* --vault-token-path or the pair --vault-role, --vault-auth-path is emitted:
\* the token if non-empty, else the token path if non-empty, else the role.
C7_ExactlyOneCredential ==
    (ret.op = "ToArgs" /\ Selects(UnsealCfg, "Vault")) =>
        LET v == UnsealCfg.Vault[1]
            want == IF v.Token # "" THEN "token"
                    ELSE IF v.TokenPath # "" THEN "token-path" ELSE "role"
        IN  /\ VaultForms(ret.val, v) = {want}
            /\ \A f \in {"token", "token-path", "role"} \ {want} :
                  ~VaultFormTouched(ret.val, f)

\* C7 amended: at most one of the three is emitted: the token if non-empty, else
\* the token path if non-empty, else the role pair if the role is non-empty, and
\* none of them when token, token path and role are all empty.
C7_AtMostOneCredential ==
    (ret.op = "ToArgs" /\ Selects(UnsealCfg, "Vault")) =>
        LET v == UnsealCfg.Vault[1]
            want == IF v.Token # "" THEN {"token"}
                    ELSE IF v.TokenPath # "" THEN {"token-path"}
                    ELSE IF v.Role # "" THEN {"role"} ELSE {}
        IN  /\ VaultForms(ret.val, v) = want
            /\ \A f \in {"token", "token-path", "role"} \ want :
                  ~VaultFormTouched(ret.val, f)

\* With no token but a token path and a role, only the token path is emitted.
C7_Witness ==
    /\ ret.op = "ToArgs"
    /\ Selects(UnsealCfg, "Vault")
    /\ UnsealCfg.Vault[1].Token = ""
    /\ UnsealCfg.Vault[1].TokenPath # ""
    /\ UnsealCfg.Vault[1].Role # ""
    /\ VaultForms(ret.val, UnsealCfg.Vault[1]) = {"token-path"}

\* C8: for the HSM variant the mode is hsm-k8s if and only if the Kubernetes
\* secret namespace and name are both non-empty, and hsm otherwise; --hsm-pin and
\* --hsm-token-label are emitted only when non-empty; the three --k8s-* pairs are
\* emitted, after every --hsm-* flag, if and only if the mode is hsm-k8s.
C8_HSMMode ==
    (ret.op = "ToArgs" /\ Selects(UnsealCfg, "HSM")) =>
        LET args == ret.val
            h == UnsealCfg.HSM[1]
            k == UnsealCfg.Kubernetes
            both == k.SecretNamespace # "" /\ k.SecretName # ""
        IN  /\ HasPair(args, "--mode", IF both THEN "hsm-k8s" ELSE "hsm")
            /\ IF h.Pin # "" THEN HasPair(args, "--hsm-pin", h.Pin)
               ELSE "--hsm-pin" \notin Tokens(args)
            /\ IF h.TokenLabel # "" THEN HasPair(args, "--hsm-token-label", h.TokenLabel)
               ELSE "--hsm-token-label" \notin Tokens(args)
            /\ IF both
               THEN /\ HasPair(args, "--k8s-secret-namespace", k.SecretNamespace)
                    /\ HasPair(args, "--k8s-secret-name", k.SecretName)
                    /\ Cardinality(Pos(args, "--k8s-secret-labels")) = 1
                    /\ \A i \in 1..Len(args) :
                          args[i] \in FlagsOf("HSM") =>
                              \A f \in K8sFlags : \A j \in Pos(args, f) : i < j
               ELSE Tokens(args) \cap K8sFlags = {}

\* Only the namespace of the Kubernetes secret is set: the mode is hsm and no
\* --k8s-* token is emitted.
C8_Witness ==
    /\ ret.op = "ToArgs"
    /\ Selects(UnsealCfg, "HSM")
    /\ UnsealCfg.Kubernetes.SecretNamespace # ""
    /\ UnsealCfg.Kubernetes.SecretName = ""
    /\ UnsealCfg.HSM[1].Pin # ""
    /\ ValueOf(ret.val, "--mode") = "hsm"
    /\ Tokens(ret.val) \cap K8sFlags = {}

\* C9: with no variant set the list ends --mode k8s --k8s-secret-namespace ns
\* --k8s-secret-name name --k8s-secret-labels selector, ns being the configured
\* namespace or else the resource's own, name the configured name or else
\* <resource name>-unseal-keys, each default applied on its own.
C9_KubernetesDefaults ==
    (ret.op = "ToArgs" /\ SetVariants(UnsealCfg) = {}) =>
        LET args == ret.val
            k == UnsealCfg.Kubernetes
            n == Len(args)
        IN  /\ n >= 8
            /\ SubSeq(args, n - 7, n - 1) =
                  <<"--mode", "k8s",
                    "--k8s-secret-namespace",
                    IF k.SecretNamespace # "" THEN k.SecretNamespace ELSE Namespace,
                    "--k8s-secret-name",
                    IF k.SecretName # "" THEN k.SecretName ELSE Name \o "-unseal-keys",
                    "--k8s-secret-labels">>

\* The namespace is configured and the name is not: the configured namespace goes
\* with the default name.
C9_Witness ==
    /\ ret.op = "ToArgs"
    /\ SetVariants(UnsealCfg) = {}
    /\ UnsealCfg.Kubernetes.SecretNamespace = "vault-infra"
    /\ UnsealCfg.Kubernetes.SecretName = ""
    /\ Name = "my-vault"
    /\ HasPair(ret.val, "--k8s-secret-namespace", "vault-infra")
    /\ HasPair(ret.val, "--k8s-secret-name", "my-vault-unseal-keys")

\* The key=value entries of a label set in ascending order of the keys, joined
\* with commas.
SelectorByKey(labels) ==
    LET byKey == CHOOSE o \in RangeOrders(labels) :
                    \A i, j \in DOMAIN o : i < j => BytesLess(Bytes(o[i]), Bytes(o[j]))
    IN  Join([i \in DOMAIN byKey |-> byKey[i] \o "=" \o labels[byKey[i]]], ",")

\* C10: the value after --k8s-secret-labels, in the modes k8s and hsm-k8s, is the
\* comma-joined key=value entries of LabelsForVault in ascending order of the
\* keys, whatever the order in which the map is visited.
C10_SelectorSorted ==
    (ret.op = "ToArgs" /\ ValueOf(ret.val, "--mode") \in {"k8s", "hsm-k8s"}) =>
        HasPair(ret.val, "--k8s-secret-labels", SelectorByKey(LabelsForVault(Name)))

\* The selector of the hsm-k8s mode for the resource my-vault.
C10_Witness ==
    /\ ret.op = "ToArgs"
    /\ ValueOf(ret.val, "--mode") = "hsm-k8s"
    /\ ret.val[Len(ret.val)] = "app.kubernetes.io/name=vault,vault_cr=my-vault"

\* The last n tokens of an argument list, the whole list when it is shorter.
Suffix(args, n) ==
    IF Len(args) <= n THEN args ELSE SubSeq(args, Len(args) - n + 1, Len(args))

\* The fixed flags of the AWS variant with the values of a, in the order of the claim.
AWSFixedTokens(a) ==
    <<"--mode", "aws-kms-s3", "--aws-kms-key-id", a.KMSKeyID,
      "--aws-kms-region", a.KMSRegion, "--aws-s3-bucket", a.S3Bucket,
      "--aws-s3-prefix", a.S3Prefix, "--aws-s3-region", a.S3Region,
      "--aws-s3-sse-algo", a.S3SSE>>

\* C11: with only the AWS variant set, the list ToArgs returns ends with --mode
\* aws-kms-s3 and the six flags --aws-kms-key-id, --aws-kms-region, --aws-s3-bucket,
\* --aws-s3-prefix, --aws-s3-region, --aws-s3-sse-algo in that order, each followed
\* by its value even when the value is empty, and then with
\* --aws-kms-encryption-context and its value if and only if that value is not empty.
C11_AWSTokens ==
    (ret.op = "ToArgs" /\ {v \in VariantNames : UnsealCfg[v] # <<>>} = {"AWS"}) =>
        LET a == UnsealCfg.AWS[1]
            fixed == AWSFixedTokens(a)
        IN  IF a.KMSEncryptionContext # ""
            THEN /\ Suffix(ret.val, Len(fixed) + 2) =
                        fixed \o <<"--aws-kms-encryption-context", a.KMSEncryptionContext>>
            ELSE /\ Suffix(ret.val, Len(fixed)) = fixed
                 /\ "--aws-kms-encryption-context" \notin Tokens(ret.val)

\* Only AWS is set, with the regions and the SSE algorithm empty and an encryption
\* context: the empty values are tokens of the list and the context pair ends it.
C11_Witness ==
    /\ ret.op = "ToArgs"
    /\ {v \in VariantNames : UnsealCfg[v] # <<>>} = {"AWS"}
    /\ UnsealCfg.AWS[1].KMSRegion = ""
    /\ UnsealCfg.AWS[1].KMSEncryptionContext = "a=b"
    /\ Suffix(ret.val, 6) =
          <<"--aws-s3-region", "", "--aws-s3-sse-algo", "",
            "--aws-kms-encryption-context", "a=b">>

-----------------------------------------------------------------------------
(* The HA verdict on a storage stanza with several keys                    *)

\* C20: when the storage stanza has more than one key and the document has no
\* ha_storage stanza, the verdict of HasHAStorage is the verdict one of those keys
\* gives as the only key of the stanza: the key tested for membership in
\* HAStorageTypes is the key whose consul/raft and ha_enabled reading is used, so
\* the verdict is not true when every key alone gives false.
C20_OneKeyDecides ==
    (/\ ret.op = "HasHAStorage"
     /\ Cardinality(StorageStanzaKeys(Config)) > 1
     /\ "ha_storage" \notin DOMAIN Config.m) =>
        \E t \in StorageStanzaKeys(Config) : ret.val = HAByBackend(Config, t)

-----------------------------------------------------------------------------
(* ConfigJSON: encoding/json and github.com/imdario/mergo                  *)

\* A JSON number, held as the text of its literal.
JNum(text) == [t |-> "num", n |-> text]

\* The value a number literal has as a float64 (strconv.ParseFloat, ties to
\* even), written as json.Marshal prints that float64. 9007199254740993 is
\* 2^53 + 1, which no float64 holds.
Float64Text(text) ==
    CASE text = "0" -> "0"
      [] text = "1.0" -> "1"
      [] text = "8200" -> "8200"
      [] text = "9007199254740993" -> "9007199254740992"
      [] OTHER -> text

RECURSIVE Decode(_)
\* What json.Unmarshal stores in an interface{} for a JSON value: a number
\* becomes a float64, an object a map[string]interface{} of decoded members.
Decode(v) ==
    CASE v.t = "num" -> JNum(Float64Text(v.n))
      [] v.t = "map" -> JMap([k \in DOMAIN v.m |-> Decode(v.m[k])])
      [] OTHER -> v

\* json.Unmarshal with its error dropped, as GetVaultConfig calls it: the map
\* stays empty for a text that is no JSON object.
UnmarshalErrorDropped(raw) ==
    CASE raw.t = "map" -> [err |-> FALSE, config |-> Decode(raw)]
      [] raw.t = "null" -> [err |-> FALSE, config |-> JNull]
      [] OTHER -> [err |-> FALSE, config |-> JMap(EmptyMap)]

\* json.Unmarshal(raw, &config) with config a map[string]interface{}: an object
\* fills the map, null sets it to nil, every other text is an error.
Unmarshal(raw) ==
    CASE raw.t = "map" -> [err |-> FALSE, config |-> Decode(raw)]
      [] raw.t = "null" -> [err |-> FALSE, config |-> JNull]
      [] OTHER -> [err |-> TRUE, config |-> JMap(EmptyMap)]

\* mergo's isEmptyValue on a decoded value: nil, false, 0, "" and a map or list
\* without elements. (JOther stands for a list with elements here.)
isEmptyValue(v) ==
    CASE v.t = "null" -> TRUE
      [] v.t = "bool" -> ~v.b
      [] v.t = "str" -> v.s = ""
      [] v.t = "num" -> v.n = "0"
      [] v.t = "map" -> DOMAIN v.m = {}
      [] OTHER -> FALSE

RECURSIVE deepMerge(_, _)
\* mergo's deepMerge of the map src into the map dst, without the override
\* option. For each key of src: where both elements are maps the one of dst is
\* merged in place first; then a dst element that is not empty is kept, and a
\* missing or empty one is set to the element of src.
deepMerge(dst, src) ==
    [k \in DOMAIN dst \cup DOMAIN src |->
        IF k \notin DOMAIN src THEN dst[k]
        ELSE IF k \notin DOMAIN dst THEN src[k]
        ELSE LET dstElement ==
                    IF src[k].t = "map" /\ dst[k].t = "map"
                    THEN JMap(deepMerge(dst[k].m, src[k].m))
                    ELSE dst[k]
             IN  IF ~isEmptyValue(dstElement) /\ src[k].t = dstElement.t
                 THEN dstElement
                 ELSE IF isEmptyValue(dstElement) THEN src[k] ELSE dstElement]

\* The fragment ConfigJSON merges into the document.
serviceRegistration(namespace) ==
    [k1 \in {"service_registration"} |->
        JMap([k2 \in {"kubernetes"} |->
            JMap([k3 \in {"namespace"} |-> JStr(namespace)])])]

\* ConfigJSON with the fragment merged in whenever service registration is enabled.
ConfigJSONHAUnchecked(raw, enabled, namespace, hasHA) ==
    LET u == Unmarshal(raw)
    IN  IF u.err THEN [err |-> "json: cannot unmarshal into a map", val |-> <<>>]
        ELSE IF enabled
             THEN [err |-> "",
                   val |-> <<JMap(deepMerge(ToStringMap(u.config),
                                            serviceRegistration(namespace)))>>]
             ELSE [err |-> "", val |-> <<u.config>>]

\* ConfigJSON, given the verdict HasHAStorage returns to it when it is called:
\* the error, "" for nil, and the document returned, <<>> for the nil slice. json.Marshal
\* prints the decoded value and does not fail on it.
ConfigJSONOf(raw, enabled, namespace, hasHA) ==
    LET u == Unmarshal(raw)
    IN  IF u.err THEN [err |-> "json: cannot unmarshal into a map", val |-> <<>>]
        ELSE IF enabled /\ hasHA
             THEN [err |-> "",
                   val |-> <<JMap(deepMerge(u.config.m, serviceRegistration(namespace)))>>]
             ELSE [err |-> "", val |-> <<u.config>>]

-----------------------------------------------------------------------------
(* Strings read character by character                                     *)
(* Image and TLSExpiryThreshold are Go strings; the parsers that read them *)
(* work on the sequence of their characters.                               *)

Digits == {"0", "1", "2", "3", "4", "5", "6", "7", "8", "9"}

Lower ==
    {"a", "b", "c", "d", "e", "f", "g", "h", "i", "j", "k", "l", "m",
     "n", "o", "p", "q", "r", "s", "t", "u", "v", "w", "x", "y", "z"}

Upper ==
    {"A", "B", "C", "D", "E", "F", "G", "H", "I", "J", "K", "L", "M",
     "N", "O", "P", "Q", "R", "S", "T", "U", "V", "W", "X", "Y", "Z"}

DigitValue(c) ==
    CASE c = "0" -> 0 [] c = "1" -> 1 [] c = "2" -> 2 [] c = "3" -> 3 [] c = "4" -> 4
      [] c = "5" -> 5 [] c = "6" -> 6 [] c = "7" -> 7 [] c = "8" -> 8 [] c = "9" -> 9

\* s[n:] of Go.
Drop(s, n) == SubSeq(s, n + 1, Len(s))

RECURSIVE PrefixLen(_, _)
\* The length of the longest prefix of s made of characters of the set.
PrefixLen(s, set) ==
    IF s = <<>> \/ s[1] \notin set THEN 0 ELSE 1 + PrefixLen(Tail(s), set)

RECURSIVE Decimal(_)
\* The number a sequence of digits writes, 0 for the empty one.
Decimal(d) ==
    IF d = <<>> THEN 0
    ELSE 10 * Decimal(SubSeq(d, 1, Len(d) - 1)) + DigitValue(d[Len(d)])

RECURSIVE Pow10(_)
Pow10(n) == IF n = 0 THEN 1 ELSE 10 * Pow10(n - 1)

\* strings.IndexByte: the first place of c in s, 0 when there is none.
IndexOf(s, c) ==
    IF \E i \in 1..Len(s) : s[i] = c
    THEN CHOOSE i \in 1..Len(s) : s[i] = c /\ \A j \in 1..(i - 1) : s[j] # c
    ELSE 0

\* strings.LastIndexByte: the last place of c in s, 0 when there is none.
LastIndexOf(s, c) ==
    IF \E i \in 1..Len(s) : s[i] = c
    THEN CHOOSE i \in 1..Len(s) : s[i] = c /\ \A j \in (i + 1)..Len(s) : s[j] # c
    ELSE 0

RECURSIVE Split(_, _)
\* strings.Split: the pieces of s between the occurrences of c.
Split(s, c) ==
    IF IndexOf(s, c) = 0 THEN <<s>>
    ELSE <<SubSeq(s, 1, IndexOf(s, c) - 1)>> \o Split(Drop(s, IndexOf(s, c)), c)

-----------------------------------------------------------------------------
(* GetTLSExpiryThreshold and time.ParseDuration                            *)
(* A time.Duration is counted in milliseconds here, so the units below the *)
(* millisecond (ns, us) are left out of unitMap; the thresholds explored   *)
(* use ms, s, m and h, at most one digit after the point, and stay below   *)
(* the overflow of an int64 of nanoseconds.                                *)

Millisecond == 1
Second == 1000 * Millisecond
Minute == 60 * Second
Hour == 60 * Minute

unitMap ==
    (<<"m", "s">> :> Millisecond) @@ (<<"s">> :> Second)
    @@ (<<"m">> :> Minute) @@ (<<"h">> :> Hour)

\* The characters a unit is read from: every one but the point and the digits.
\* (Those that occur in the thresholds explored.)
UnitCharacters == Lower \cup Upper \cup {"-", "+", "_", " ", "%"}

InvalidDuration == [err |-> TRUE, val |-> 0]

RECURSIVE ParseGroups(_, _)
\* The loop of time.ParseDuration over the groups [0-9]*(\.[0-9]*)?[a-z]+,
\* d being the sum of the groups read so far.
ParseGroups(s, d) ==
    IF s = <<>> THEN [err |-> FALSE, val |-> d]
    ELSE IF s[1] \notin Digits \cup {"."} THEN InvalidDuration
    ELSE LET n == PrefixLen(s, Digits)
             v == Decimal(SubSeq(s, 1, n))
             s1 == Drop(s, n)
             point == s1 # <<>> /\ s1[1] = "."
             s2 == IF point THEN Tail(s1) ELSE s1
             fn == IF point THEN PrefixLen(s2, Digits) ELSE 0
             f == Decimal(SubSeq(s2, 1, fn))
             scale == Pow10(fn)
             s3 == Drop(s2, fn)
             i == PrefixLen(s3, UnitCharacters)
             u == SubSeq(s3, 1, i)
         IN  IF n = 0 /\ fn = 0 THEN InvalidDuration
             ELSE IF i = 0 THEN InvalidDuration
             ELSE IF u \notin DOMAIN unitMap THEN InvalidDuration
             ELSE ParseGroups(Drop(s3, i), d + v * unitMap[u] + (f * unitMap[u]) \div scale)

\* time.ParseDuration: [-+]?([0-9]*(\.[0-9]*)?[a-z]+)+, and "0" is zero.
ParseDuration(s) ==
    LET signed == s # <<>> /\ s[1] \in {"-", "+"}
        neg == signed /\ s[1] = "-"
        rest == IF signed THEN Tail(s) ELSE s
    IN  IF rest = <<"0">> THEN [err |-> FALSE, val |-> 0]
        ELSE IF rest = <<>> THEN InvalidDuration
        ELSE LET r == ParseGroups(rest, 0)
             IN  IF r.err THEN InvalidDuration
                 ELSE [err |-> FALSE, val |-> IF neg THEN 0 - r.val ELSE r.val]

\* GetTLSExpiryThreshold returning what ParseDuration returned with its error.
GetTLSExpiryThresholdErrorDropped(threshold) ==
    IF threshold = <<>> THEN Hour * 168 ELSE ParseDuration(threshold).val

GetTLSExpiryThresholdOf(threshold) ==
    IF threshold = <<>> THEN Hour * 168
    ELSE LET parsed == ParseDuration(threshold)
         IN  IF parsed.err THEN Hour * 168 ELSE parsed.val

-----------------------------------------------------------------------------
(* GetVersion: docker-ref's reference.ParseAnyReference and semver.NewVersion *)
(* The grammar of a reference is that of docker-ref's regexp.go; of the    *)
(* digest algorithms only sha256 is read, and the legacy domain            *)
(* index.docker.io is not rewritten: the images explored use neither.      *)

Alphanumeric == Lower \cup Digits

\* \w of the tag pattern.
Word == Lower \cup Upper \cup Digits \cup {"_"}

HexLower == Digits \cup {"a", "b", "c", "d", "e", "f"}

\* Every character of s is of the set.
Only(s, set) == \A i \in 1..Len(s) : s[i] \in set

\* anchoredIdentifierRegexp: 64 lower-case hex digits.
IsIdentifier(s) == Len(s) = 64 /\ Only(s, HexLower)

\* digest.Parse succeeds: sha256, a colon and 64 lower-case hex digits.
IsDigest(s) ==
    /\ IndexOf(s, ":") > 0
    /\ SubSeq(s, 1, IndexOf(s, ":") - 1) = <<"s", "h", "a", "2", "5", "6">>
    /\ IsIdentifier(Drop(s, IndexOf(s, ":")))

\* domain-component: letters and digits, with hyphens inside only.
IsDomainComponent(s) ==
    /\ s # <<>>
    /\ Only(s, Lower \cup Upper \cup Digits \cup {"-"})
    /\ s[1] # "-"
    /\ s[Len(s)] # "-"

\* domain: components joined by points, then an optional colon and port number.
IsDomain(s) ==
    LET colon == IndexOf(s, ":")
        host == IF colon = 0 THEN s ELSE SubSeq(s, 1, colon - 1)
        port == IF colon = 0 THEN <<"0">> ELSE Drop(s, colon)
        parts == Split(host, ".")
    IN  /\ \A i \in 1..Len(parts) : IsDomainComponent(parts[i])
        /\ port # <<>>
        /\ Only(port, Digits)

\* path-component: runs of [a-z0-9] joined by one of ".", "_", "__" or hyphens.
IsPathComponent(s) ==
    LET separators == {".", "_", "-"}
    IN  /\ s # <<>>
        /\ Only(s, Alphanumeric \cup separators)
        /\ s[1] \in Alphanumeric
        /\ s[Len(s)] \in Alphanumeric
        /\ \A i \in 1..(Len(s) - 1) :
              (s[i] \in separators /\ s[i + 1] \in separators) =>
                  (s[i] = s[i + 1] /\ s[i] \in {"-", "_"})
        /\ \A i \in 1..(Len(s) - 2) : ~(s[i] = "_" /\ s[i + 1] = "_" /\ s[i + 2] = "_")

\* name of the grammar, for a name that starts with its domain.
IsName(s) ==
    LET parts == Split(s, "/")
    IN  /\ Len(s) <= 255
        /\ Len(parts) >= 2
        /\ IsDomain(parts[1])
        /\ \A i \in 2..Len(parts) : IsPathComponent(parts[i])

\* tag of the grammar: [\w][\w.-]{0,127}.
IsTag(s) ==
    /\ s # <<>>
    /\ Len(s) <= 128
    /\ s[1] \in Word
    /\ Only(s, Word \cup {".", "-"})

InvalidReference == [err |-> TRUE, tagged |-> FALSE, tag |-> <<>>]

\* A reference that is no reference.Tagged: a repository alone, or one with a
\* digest and no tag, or a digest alone.
Untagged == [err |-> FALSE, tagged |-> FALSE, tag |-> <<>>]

\* reference.Parse of a reference that starts with its domain: the name, then
\* an optional colon and tag, then an optional @ and digest. A reference with
\* a tag is Tagged whether or not it has a digest as well.
Parse(s) ==
    LET at == IndexOf(s, "@")
        front == IF at = 0 THEN s ELSE SubSeq(s, 1, at - 1)
        colon == LastIndexOf(front, ":")
        hasTag == colon > LastIndexOf(front, "/")
        name == IF hasTag THEN SubSeq(front, 1, colon - 1) ELSE front
        tag == IF hasTag THEN Drop(front, colon) ELSE <<>>
    IN  IF ~IsName(name) THEN InvalidReference
        ELSE IF hasTag /\ ~IsTag(tag) THEN InvalidReference
        ELSE IF at > 0 /\ ~IsDigest(Drop(s, at)) THEN InvalidReference
        ELSE IF hasTag THEN [err |-> FALSE, tagged |-> TRUE, tag |-> tag]
        ELSE Untagged

\* reference.ParseNormalizedNamed: splitDockerDomain puts docker.io (and
\* library/ for a name of one component) in front of a name without a domain,
\* a repository name with an upper-case letter is refused, the rest is Parse.
ParseNormalizedNamed(s) ==
    LET i == IndexOf(s, "/")
        first == SubSeq(s, 1, i - 1)
        noDomain == \/ i = 0
                    \/ /\ IndexOf(first, ".") = 0
                       /\ IndexOf(first, ":") = 0
                       /\ first # <<"l", "o", "c", "a", "l", "h", "o", "s", "t">>
        domain == IF noDomain THEN <<"d", "o", "c", "k", "e", "r", ".", "i", "o">> ELSE first
        rest == IF noDomain THEN s ELSE Drop(s, i)
        remainder == IF domain = <<"d", "o", "c", "k", "e", "r", ".", "i", "o">> /\ IndexOf(rest, "/") = 0
                     THEN <<"l", "i", "b", "r", "a", "r", "y", "/">> \o rest
                     ELSE rest
        tagSep == IndexOf(remainder, ":")
        remoteName == IF tagSep > 0 THEN SubSeq(remainder, 1, tagSep - 1) ELSE remainder
    IN  IF IsIdentifier(s) THEN InvalidReference
        ELSE IF \E j \in 1..Len(remoteName) : remoteName[j] \in Upper THEN InvalidReference
        ELSE Parse(domain \o <<"/">> \o remainder)

\* reference.ParseAnyReference: an identifier or a digest is a digest
\* reference, everything else is read as a named reference.
ParseAnyReference(ref) ==
    IF IsIdentifier(ref) THEN Untagged
    ELSE IF IsDigest(ref) THEN Untagged
    ELSE ParseNormalizedNamed(ref)

\* A run of the characters [0-9A-Za-z-] between the points of a pre-release or
\* of build metadata.
IsIdentifiers(s) ==
    LET parts == Split(s, ".")
    IN  \A i \in 1..Len(parts) :
           parts[i] # <<>> /\ Only(parts[i], Lower \cup Upper \cup Digits \cup {"-"})

InvalidSemVer == [err |-> TRUE, val |-> <<>>]

\* semver.NewVersion: an optional v, one to three numbers joined by points (a
\* number left out is 0), then an optional hyphen and pre-release and an
\* optional plus and build metadata. (The tags explored have numbers below the
\* overflow of a uint64 and no pre-release number with a leading zero.)
NewVersion(v) ==
    LET s == IF v # <<>> /\ v[1] = "v" THEN Tail(v) ELSE v
        n == PrefixLen(s, Digits \cup {"."})
        numbers == Split(SubSeq(s, 1, n), ".")
        extra == Drop(s, n)
        plus == IndexOf(extra, "+")
        hasPre == extra # <<>> /\ extra[1] = "-"
        pre == IF ~hasPre THEN <<>>
               ELSE IF plus = 0 THEN Tail(extra) ELSE SubSeq(extra, 2, plus - 1)
        metadata == IF plus = 0 THEN <<>> ELSE Drop(extra, plus)
        number(i) == IF i <= Len(numbers) THEN Decimal(numbers[i]) ELSE 0
    IN  IF \/ Len(numbers) > 3
           \/ \E i \in 1..Len(numbers) : numbers[i] = <<>>
           \/ extra # <<>> /\ extra[1] \notin {"-", "+"}
           \/ hasPre /\ ~IsIdentifiers(pre)
           \/ plus > 0 /\ ~IsIdentifiers(metadata)
        THEN InvalidSemVer
        ELSE [err |-> FALSE,
              val |-> <<[major |-> number(1), minor |-> number(2), patch |-> number(3),
                         pre |-> pre, metadata |-> metadata]>>]

\* GetVersion taking a reference without a tag for one with an empty tag.
GetVersionTagUnchecked(image) ==
    LET ref == ParseAnyReference(image)
    IN  IF ref.err
        THEN [err |-> "parsing image ref for Vault version", val |-> <<>>]
        ELSE IF NewVersion(ref.tag).err
             THEN [err |-> "Invalid Semantic Version", val |-> <<>>]
             ELSE [err |-> "", val |-> NewVersion(ref.tag).val]

\* GetVersion: the error, "" for nil, and the version, <<>> for nil.
GetVersionOf(image) ==
    LET ref == ParseAnyReference(image)
    IN  IF ref.err
        THEN [err |-> "parsing image ref for Vault version", val |-> <<>>]
        ELSE IF ~ref.tagged
             THEN [err |-> "Vault image ref does not have a tag", val |-> <<>>]
             ELSE IF NewVersion(ref.tag).err
                  THEN [err |-> "Invalid Semantic Version", val |-> <<>>]
                  ELSE [err |-> "", val |-> NewVersion(ref.tag).val]

-----------------------------------------------------------------------------
(* The resources explored for ConfigJSON, GetVersion and GetTLSExpiryThreshold *)

\* 64 lower-case hex digits.
Hex64 == [i \in 1..64 |-> IF i % 2 = 0 THEN "a" ELSE "0"]

\* The image references explored.
Images ==
    {<<>>,
     <<"r", "e", "p", "o", "/", "i", "m", "a", "g", "e", ":", "1", ".", "2", ".", "3">>,
     <<"r", "e", "p", "o", "/", "i", "m", "a", "g", "e">>,
     <<"r", "e", "p", "o", "/", "i", "m", "a", "g", "e", ":", "l", "a", "t", "e", "s", "t">>,
     <<"v", "a", "u", "l", "t", ":", "1", ".", "1", "4">>,
     <<"h", "a", "s", "h", "i", "c", "o", "r", "p", "/", "v", "a", "u", "l", "t", ":", "v", "1", ".", "2", ".", "3", "-", "r", "c", ".", "1", "+", "e", "n", "t">>,
     <<"h", "a", "s", "h", "i", "c", "o", "r", "p", "/", "v", "a", "u", "l", "t", ":", "v", "1", ".", "2", ".", "3", "-", "r", "c", ".", "1">>,
     <<"l", "o", "c", "a", "l", "h", "o", "s", "t", ":", "5", "0", "0", "0", "/", "v", "a", "u", "l", "t">>,
     <<"g", "h", "c", "r", ".", "i", "o", "/", "v", "/", "v", "a", "u", "l", "t", ":", "1", ".", "2", ".", "3", ".", "4">>,
     <<"R", "e", "p", "o", "/", "I", "m", "a", "g", "e", ":", "1", ".", "2", ".", "3">>,
     <<"r", "e", "p", "o", "/", "i", "m", "a", "g", "e", ":">>,
     <<"r", "e", "p", "o", "/", "i", "m", "a", "g", "e", "@", "s", "h", "a", "2", "5", "6", ":">> \o Hex64,
     <<"r", "e", "p", "o", "/", "i", "m", "a", "g", "e", ":", "1", ".", "2", ".", "3", "@", "s", "h", "a", "2", "5", "6", ":">> \o Hex64,
     <<"r", "e", "p", "o", "/", "i", "m", "a", "g", "e", "@", "s", "h", "a", "2", "5", "6", ":", "a", "b", "c">>,
     Hex64}

\* The values of tlsExpiryThreshold explored.
Thresholds ==
    {<<>>,
     <<"1", "6", "8", "h">>,
     <<"2", "4", "h">>,
     <<"1", "h", "3", "0", "m">>,
     <<"1", ".", "5", "h">>,
     <<"-", "1", "h">>,
     <<"5", "0", "0", "m", "s">>,
     <<"0">>,
     <<"1", "6", "8">>,
     <<"7", "d">>,
     <<"h">>,
     <<"1", " ", "h">>,
     <<"2", "4", "H">>,
     <<"1", "0", "0", "%">>}

\* The values mergo takes for empty.
EmptyValues == {JNull, JStr(""), JBool(FALSE), JNum("0"), JMap(EmptyMap)}

\* A map with the one key k.
One(k, v) == [x \in {k} |-> v]

\* A map with the two keys k1 and k2.
Two(k1, v1, k2, v2) == [x \in {k1, k2} |-> IF x = k1 THEN v1 ELSE v2]

\* What the user may hold under service_registration.kubernetes.namespace.
NamespaceValues ==
    EmptyValues \cup {JStr("mine"), JOther, JMap(One("a", JStr("b")))}

\* What the user may hold under service_registration.kubernetes.
KubernetesStanzas ==
    EmptyValues
    \cup {JStr("off"), JMap(One("pod_name", JStr("p")))}
    \cup {JMap(One("namespace", n)) : n \in NamespaceValues}
    \cup {JMap(Two("namespace", n, "pod_name", JStr("p"))) : n \in {JStr(""), JStr("mine")}}

\* What the user may hold under service_registration.
ServiceRegistrationStanzas ==
    EmptyValues
    \cup {JStr("consul"), JMap(One("consul", JMap(One("address", JStr("c:8500")))))}
    \cup {JMap(One("kubernetes", k)) : k \in KubernetesStanzas}
    \cup {JMap(Two("kubernetes", k, "consul", JMap(EmptyMap))) :
            k \in {JNull, JMap(One("namespace", JStr("mine")))}}

\* The storage stanzas of the documents merged: none, raft, file, and one with
\* the two keys etcd and file.
MergeStorageStanzas ==
    {JMap(One("raft", JMap(EmptyMap))),
     JMap(One("file", JMap(EmptyMap))),
     JMap(Two("etcd", JNull, "file", JMap(One("ha_enabled", JBool(TRUE)))))}

\* What the user may hold under a key the merge has nothing to do with.
OtherValues == {JBool(TRUE), JNum("1.0"), JNum("9007199254740993")}

\* A JSON object with the members given, each a pointer: <<>> leaves it out.
MergeDocument(storage, registration, other) ==
    LET members == [storage |-> storage, service_registration |-> registration,
                    max_lease_ttl |-> other]
    IN  JMap([k \in {x \in DOMAIN members : members[x] # <<>>} |-> members[k][1]])

\* A pointer to one of the values, or nil.
Optional(values) == {<<>>} \cup {<<v>> : v \in values}

\* The documents explored: JSON objects, the text null, and texts that are no
\* JSON object.
MergeDocuments ==
    {JNull, JOther, JStr("{}")}
    \cup {MergeDocument(s, r, o) :
            s \in Optional(MergeStorageStanzas),
            r \in Optional(ServiceRegistrationStanzas),
            o \in Optional(OtherValues)}

InitConfigJSON ==
    /\ Config \in MergeDocuments
    /\ UnsealCfg = ZeroUnsealConfig
    /\ Name = "vault"
    /\ Namespace \in {"default", "mine"}
    /\ ServiceRegistrationEnabled \in BOOLEAN
    /\ Image \in {<<"r", "e", "p", "o", "/", "i", "m", "a", "g", "e", ":", "1", ".", "2", ".", "3">>, <<"r", "e", "p", "o", "/", "i", "m", "a", "g", "e">>, <<"r", "e", "p", "o", "/", "i", "m", "a", "g", "e", ":", "l", "a", "t", "e", "s", "t">>, <<"R", "e", "p", "o", "/", "I", "m", "a", "g", "e", ":", "1", ".", "2", ".", "3">>}
    /\ TLSExpiryThreshold = <<>>
    /\ Ingress = <<>>
    /\ NoLazyMaps
    /\ ret = NoCall

\* ConfigJSON. hasHA is what HasHAStorage returned to it, <<>> when the call
\* did not get there.
ConfigJSON ==
    /\ \E typeKey \in StorageTypes(Config), flagKey \in StorageTypes(Config) :
          LET hasHA == HasHAStorageOf(Config, typeKey, flagKey)
              result == ConfigJSONOf(Config, ServiceRegistrationEnabled, Namespace, hasHA)
          IN  ret' = [op |-> "ConfigJSON", err |-> result.err, val |-> result.val,
                      hasHA |-> IF ServiceRegistrationEnabled /\ ~Unmarshal(Config).err
                                THEN <<hasHA>> ELSE <<>>]
    /\ UNCHANGED <<vault, readers>>

GetVersion ==
    /\ ret' = [op |-> "GetVersion", err |-> GetVersionOf(Image).err,
               val |-> GetVersionOf(Image).val]
    /\ UNCHANGED <<vault, readers>>

NextConfigJSON == ConfigJSON \/ GetVersion

SpecConfigJSON == InitConfigJSON /\ [][NextConfigJSON]_vars

InitVersion ==
    /\ Config = EmptyDocument
    /\ UnsealCfg = ZeroUnsealConfig
    /\ Name = "vault"
    /\ Namespace = "default"
    /\ ServiceRegistrationEnabled = FALSE
    /\ Image \in Images
    /\ TLSExpiryThreshold \in Thresholds
    /\ Ingress = <<>>
    /\ NoLazyMaps
    /\ ret = NoCall

GetTLSExpiryThreshold ==
    /\ ret' = [op |-> "GetTLSExpiryThreshold",
               val |-> GetTLSExpiryThresholdOf(TLSExpiryThreshold)]
    /\ UNCHANGED <<vault, readers>>

NextVersion == GetVersion \/ GetTLSExpiryThreshold

SpecVersion == InitVersion /\ [][NextVersion]_vars

-----------------------------------------------------------------------------
(* Properties of ConfigJSON                                                *)

RECURSIVE Kept(_, _)
\* The value u of the user is kept in o: a value that is no map is the same
\* value, and every key of a map is still a key of a map, its value kept.
Kept(u, o) ==
    IF u.t = "map"
    THEN /\ o.t = "map"
         /\ \A k \in DOMAIN u.m : k \in DOMAIN o.m /\ Kept(u.m[k], o.m[k])
    ELSE o = u

\* The document of the user defines service_registration.
DefinesServiceRegistration(raw) ==
    raw.t = "map" /\ "service_registration" \in DOMAIN raw.m

\* C12: ConfigJSON does not remove or overwrite a key the document of the user
\* defines at service_registration, service_registration.kubernetes or
\* service_registration.kubernetes.namespace, at any depth and whatever value the
\* key holds (an empty map, an empty string, null, a value that is no map), also
\* when service registration is enabled and the storage is HA; a key in the way
\* of the fragment is left as it is and is no error.
C12_UserKeysKept ==
    (ret.op = "ConfigJSON" /\ DefinesServiceRegistration(Config)) =>
        /\ ret.err = ""
        /\ ret.val # <<>>
        /\ ret.val[1].t = "map"
        /\ "service_registration" \in DOMAIN ret.val[1].m
        /\ Kept(Config.m["service_registration"], ret.val[1].m["service_registration"])

RECURSIVE NoEmptyValue(_)
\* No value in v, v included, is one mergo takes for empty.
NoEmptyValue(v) ==
    /\ v \notin EmptyValues
    /\ v.t = "map" => \A k \in DOMAIN v.m : NoEmptyValue(v.m[k])

\* C12 on the documents that hold no null, false, 0, "" or {} at or under
\* service_registration: there every key of the user is kept.
C12_NonEmptyKeysKept ==
    (/\ ret.op = "ConfigJSON"
     /\ DefinesServiceRegistration(Config)
     /\ NoEmptyValue(Config.m["service_registration"])) =>
        /\ ret.err = ""
        /\ ret.val # <<>>
        /\ Kept(Config.m["service_registration"], ret.val[1].m["service_registration"])

\* The number a literal writes, named by its shortest decimal text.
ExactNumber(text) == IF text = "1.0" THEN "1" ELSE text

RECURSIVE SameJSON(_, _)
\* Two JSON values are semantically equal: the same kind of value, numbers of
\* the same value, objects with the same keys and equal members.
SameJSON(a, b) ==
    /\ a.t = b.t
    /\ CASE a.t = "num" -> ExactNumber(a.n) = ExactNumber(b.n)
         [] a.t = "map" -> /\ DOMAIN a.m = DOMAIN b.m
                           /\ \A k \in DOMAIN a.m : SameJSON(a.m[k], b.m[k])
         [] OTHER -> a = b

RECURSIVE SameAsFloat64(_, _)
\* Two JSON values are equal when every number is read as a float64.
SameAsFloat64(a, b) ==
    /\ a.t = b.t
    /\ CASE a.t = "num" -> Float64Text(a.n) = Float64Text(b.n)
         [] a.t = "map" -> /\ DOMAIN a.m = DOMAIN b.m
                           /\ \A k \in DOMAIN a.m : SameAsFloat64(a.m[k], b.m[k])
         [] OTHER -> a = b

\* The member of a JSON value at a path of keys, <<>> when there is none.
RECURSIVE At(_, _)
At(v, path) ==
    IF path = <<>> THEN <<v>>
    ELSE IF v.t = "map" /\ path[1] \in DOMAIN v.m THEN At(v.m[path[1]], Tail(path))
    ELSE <<>>

NamespacePath == <<"service_registration", "kubernetes", "namespace">>

\* The document holds the fragment: the namespace of the resource at
\* service_registration.kubernetes.namespace.
HasFragment(doc) == At(doc, NamespacePath) = <<JStr(Namespace)>>

\* ConfigJSON was called with service registration enabled and HasHAStorage
\* returned true to it.
RegistrationOn == ServiceRegistrationEnabled /\ ret.hasHA = <<TRUE>>

\* Every key but service_registration is in both documents or in neither, with
\* values the relation same holds of.
OtherKeys(u, o, same(_, _)) ==
    IF u.t = "map"
    THEN /\ o.t = "map"
         /\ \A k \in (DOMAIN u.m \cup DOMAIN o.m) \ {"service_registration"} :
               k \in DOMAIN u.m /\ k \in DOMAIN o.m /\ same(u.m[k], o.m[k])
    ELSE o = u

\* C13 as stated: ConfigJSON adds the fragment service_registration.kubernetes.
\* namespace, with the namespace of the resource, if and only if
\* ServiceRegistrationEnabled is true and HasHAStorage is true; in every other
\* case the document returned is semantically equal to the document of the user;
\* in every case all keys other than service_registration are returned unchanged.
C13_FragmentIffEnabledAndHA ==
    (ret.op = "ConfigJSON" /\ ret.err = "") =>
        /\ RegistrationOn => HasFragment(ret.val[1])
        /\ ~RegistrationOn => SameJSON(ret.val[1], Config)
        /\ OtherKeys(Config, ret.val[1], SameJSON)

\* The member at the path is absent or a value mergo takes for empty.
Unset(doc, path) == At(doc, path) = <<>> \/ At(doc, path)[1] \in EmptyValues

IsMapAt(doc, path) == At(doc, path) # <<>> /\ At(doc, path)[1].t = "map"

\* Nothing the user wrote stands in the way of the fragment: each of
\* service_registration and service_registration.kubernetes is unset or a map,
\* and service_registration.kubernetes.namespace is unset.
FragmentPlaceFree(doc) ==
    \/ Unset(doc, <<"service_registration">>)
    \/ /\ IsMapAt(doc, <<"service_registration">>)
       /\ \/ Unset(doc, <<"service_registration", "kubernetes">>)
          \/ /\ IsMapAt(doc, <<"service_registration", "kubernetes">>)
             /\ Unset(doc, NamespacePath)

\* The members of the map at the path in u, but the one under the key, are the
\* members of the map at the path in o but the one under the key.
SiblingsKept(u, o, path, key) ==
    IsMapAt(u, path) /\ ~Unset(u, path) =>
        /\ IsMapAt(o, path)
        /\ DOMAIN At(o, path)[1].m \ {key} = DOMAIN At(u, path)[1].m \ {key}
        /\ \A k \in DOMAIN At(u, path)[1].m \ {key} :
              SameAsFloat64(At(u, path)[1].m[k], At(o, path)[1].m[k])

\* C13 amended: when ServiceRegistrationEnabled is true, HasHAStorage returns
\* true and the document of the user holds, at service_registration,
\* service_registration.kubernetes and service_registration.kubernetes.namespace,
\* nothing but maps and the values null, false, 0, "" and {}, the document
\* returned holds the fragment with the namespace of the resource, the other
\* members of the user's maps on that path being kept; in every other case that
\* returns a document, the document is that of the user with each number read
\* as a float64; in every case the keys other than service_registration are
\* returned so.
C13_FragmentIffPlaceFree ==
    (ret.op = "ConfigJSON" /\ ret.err = "") =>
        /\ (RegistrationOn /\ FragmentPlaceFree(Config)) =>
              /\ HasFragment(ret.val[1])
              /\ SiblingsKept(Config, ret.val[1], <<"service_registration">>, "kubernetes")
              /\ SiblingsKept(Config, ret.val[1],
                              <<"service_registration", "kubernetes">>, "namespace")
        /\ ~(RegistrationOn /\ FragmentPlaceFree(Config)) =>
              SameAsFloat64(ret.val[1], Config)
        /\ OtherKeys(Config, ret.val[1], SameAsFloat64)

\* Service registration is enabled on raft storage and the user declares a
\* Consul registration and a pod name: the namespace is added next to them.
C13_Witness ==
    /\ ret.op = "ConfigJSON"
    /\ ret.err = ""
    /\ RegistrationOn
    /\ At(Config, <<"service_registration", "consul">>) = <<JMap(EmptyMap)>>
    /\ At(Config, <<"service_registration", "kubernetes">>) = <<JNull>>
    /\ HasFragment(ret.val[1])
    /\ At(ret.val[1], <<"service_registration", "consul">>) = <<JMap(EmptyMap)>>

\* C17: GetVersion and ConfigJSON return an error together with a nil result
\* when they fail (the image gives no version; the document is no JSON object)
\* and a result without an error otherwise, and whether they fail or succeed
\* they leave the held Vault resource, Spec.Image, Spec.Config and every other
\* field, as it was.
C17_ErrorOrResult ==
    /\ [][ret'.op \in {"GetVersion", "ConfigJSON"} => UNCHANGED vault]_vars
    /\ [](ret.op \in {"GetVersion", "ConfigJSON"} =>
            /\ (ret.err # "") <=> (ret.val = <<>>)
            /\ (ret.op = "ConfigJSON" /\ Config.t \notin {"map", "null"}) => ret.err # ""
            /\ (ret.op = "GetVersion" /\ IndexOf(Image, ":") = 0) => ret.err # "")

\* ConfigJSON on a document that is a string: an error and the nil slice.
C17_Witness ==
    /\ ret.op = "ConfigJSON"
    /\ Config = JStr("{}")
    /\ ret.err # ""
    /\ ret.val = <<>>

-----------------------------------------------------------------------------
(* The lazy accessors                                                      *)
(* A Go map is a reference: a field holds the address of the map and the   *)
(* heap holds, by address, the keys of each map. The address of a map      *)
(* names the field it was made for and who made it: 0 for the maps the     *)
(* resource declares, the reader for those an accessor makes. A slice is   *)
(* held by value: the sequence of its elements.                            *)
(* An accessor is three steps of the goroutine that calls it: the test of  *)
(* the field for nil, the assignment of the empty container, and the read  *)
(* of the field for the return. Nothing orders the steps of two readers.   *)

\* Largest number of accessor calls made on one resource, by all its readers.
MaxReads == 2

\* The numbers of readers of one resource explored: its single owner, or two
\* goroutines.
ReaderCounts == {1, 2}

\* The fields that hold a []map[string]string.
ListFieldNames == {"WatchedSecretsLabels", "WatchedSecretsAnnotations"}

MapAt(field, by) == [kind |-> "map", addr |-> [field |-> field, by |-> by]]

ListOf(elems) == [kind |-> "list", elems |-> elems]

\* What the resource declares for a field it does not leave nil: a map with
\* one entry, written by nobody here (0), or a list of one label set.
Declared(field) ==
    IF field \in ListFieldNames THEN ListOf(<<{"app"}>>) ELSE MapAt(field, 0)

\* The empty container with the lists left nil.
EmptyContainerNilList(field, r) ==
    IF field \in ListFieldNames THEN Nil ELSE MapAt(field, r)

\* map[string]string{} or []map[string]string{}, made by reader r for the field.
EmptyContainer(field, r) ==
    IF field \in ListFieldNames THEN ListOf(<<>>) ELSE MapAt(field, r)

\* The test of an accessor taken as true whatever the field holds.
IsNilAlways(value) == TRUE

\* spec.<field> == nil
IsNil(value) == value = Nil

\* A reader that has called nothing yet and holds nothing.
IdleReader ==
    [pc |-> "idle", field |-> "", of |-> "", val |-> Nil, wrote |-> FALSE, calls |-> 0]

\* The fields the resource declares, in the resources explored: none, one, or all.
DeclaredSets ==
    {{}, LazyFieldNames} \cup {{f} : f \in LazyFieldNames}

InitLazy ==
    /\ Config = EmptyDocument
    /\ UnsealCfg = ZeroUnsealConfig
    /\ Name = "vault"
    /\ Namespace = "default"
    /\ NoResolveFields
    /\ Ingress = <<>>
    /\ \E declared \in DeclaredSets :
          /\ LazyMaps = [f \in LazyFieldNames |->
                            IF f \in declared THEN Declared(f) ELSE Nil]
          /\ heap = [a \in {MapAt(f, 0).addr : f \in declared \ ListFieldNames} |-> {0}]
    /\ readers \in {[r \in 1..n |-> IdleReader] : n \in ReaderCounts}
    /\ ret = NoCall

RECURSIVE CallsOf(_)
\* The number of accessor calls the first n readers have made.
CallsOf(n) == IF n = 0 THEN 0 ELSE readers[n].calls + CallsOf(n - 1)

Calls == CallsOf(Len(readers))

\* The first step of the accessor of the field by reader r: if spec.<field> == nil.
Enter(r, field) ==
    /\ readers[r].pc = "idle"
    /\ Calls < MaxReads
    /\ readers' = [readers EXCEPT ![r].pc = IF IsNil(LazyMaps[field]) THEN "assign" ELSE "return",
                                  ![r].field = field,
                                  ![r].calls = @ + 1]
    /\ UNCHANGED <<vault, ret>>

GetAnnotations == \E r \in DOMAIN readers : Enter(r, "Annotations")

GetVaultLabels == \E r \in DOMAIN readers : Enter(r, "VaultLabels")

GetVaultAnnotations == \E r \in DOMAIN readers : Enter(r, "VaultAnnotations")

GetVaultConfigurerLabels == \E r \in DOMAIN readers : Enter(r, "VaultConfigurerLabels")

GetVaultConfigurerAnnotations ==
    \E r \in DOMAIN readers : Enter(r, "VaultConfigurerAnnotations")

GetWatchedSecretsLabels == \E r \in DOMAIN readers : Enter(r, "WatchedSecretsLabels")

GetWatchedSecretsAnnotations ==
    \E r \in DOMAIN readers : Enter(r, "WatchedSecretsAnnotations")

\* The second step: spec.<field> = the empty container.
Assign ==
    \E r \in DOMAIN readers :
        /\ readers[r].pc = "assign"
        /\ LET made == EmptyContainer(readers[r].field, r)
           IN  /\ LazyMaps' = [LazyMaps EXCEPT ![readers[r].field] = made]
               /\ heap' = IF made.kind = "map"
                          THEN [a \in DOMAIN heap \cup {made.addr} |->
                                   IF a = made.addr THEN {} ELSE heap[a]]
                          ELSE heap
        /\ readers' = [readers EXCEPT ![r].pc = "return"]
        /\ UNCHANGED <<Config, UnsealCfg, Name, Namespace, ServiceRegistrationEnabled,
                       Image, TLSExpiryThreshold, Ingress, ret>>

\* The last step: return spec.<field>. The reader holds what it was returned.
Return ==
    \E r \in DOMAIN readers :
        /\ readers[r].pc = "return"
        /\ readers' = [readers EXCEPT ![r].pc = "idle",
                                      ![r].of = readers[r].field,
                                      ![r].val = LazyMaps[readers[r].field],
                                      ![r].wrote = FALSE]
        /\ ret' = [op |-> "Get" \o readers[r].field, reader |-> r,
                   val |-> LazyMaps[readers[r].field]]
        /\ UNCHANGED vault

\* A reader writes an entry of its own, under the key r, through the map it
\* was returned.
Put ==
    \E r \in DOMAIN readers :
        /\ readers[r].pc = "idle"
        /\ readers[r].val.kind = "map"
        /\ ~readers[r].wrote
        /\ heap' = [heap EXCEPT ![readers[r].val.addr] = @ \cup {r}]
        /\ readers' = [readers EXCEPT ![r].wrote = TRUE]
        /\ UNCHANGED <<Config, UnsealCfg, Name, Namespace, ServiceRegistrationEnabled,
                       Image, TLSExpiryThreshold, Ingress, LazyMaps, ret>>

NextLazy ==
    \/ GetAnnotations
    \/ GetVaultLabels
    \/ GetVaultAnnotations
    \/ GetVaultConfigurerLabels
    \/ GetVaultConfigurerAnnotations
    \/ GetWatchedSecretsLabels
    \/ GetWatchedSecretsAnnotations
    \/ Assign
    \/ Return
    \/ Put

SpecLazy == InitLazy /\ [][NextLazy]_vars

-----------------------------------------------------------------------------
(* Properties of the lazy accessors                                        *)

\* The resource has a single owner: one goroutine reads it.
SingleOwner == Len(readers) = 1

\* The fields of the spec that no lazy accessor is about.
otherFields ==
    <<Config, UnsealCfg, Name, Namespace, ServiceRegistrationEnabled, Image,
      TLSExpiryThreshold, Ingress>>

\* The container is empty: a list without elements, or a map without keys.
IsEmptyContainer(value, h) ==
    \/ value.kind = "list" /\ value.elems = <<>>
    \/ value.kind = "map" /\ value.addr \in DOMAIN h /\ h[value.addr] = {}

\* What a single owner holds after a read: the container its last read
\* returned is not nil and is the one the field holds, and the entry the owner
\* wrote through it is in the map the field holds.
OwnerHoldsField ==
    SingleOwner =>
        LET owner == readers[1]
        IN  owner.of # "" =>
               /\ owner.val # Nil
               /\ owner.val = LazyMaps[owner.of]
               /\ owner.wrote => 1 \in heap[LazyMaps[owner.of].addr]

\* What a step of a single owner does to the fields: a field that is not nil
\* keeps its container and, unless the owner writes through it, its content;
\* a field changes only from nil to an empty container, in the read of its own
\* accessor, every other field staying as it is.
OwnerStep ==
    SingleOwner =>
        /\ \A f \in LazyFieldNames : LazyMaps[f] # Nil => LazyMaps'[f] = LazyMaps[f]
        /\ \A a \in DOMAIN heap :
              /\ a \in DOMAIN heap'
              /\ heap[a] \subseteq heap'[a]
              /\ readers'[1].wrote = readers[1].wrote => heap'[a] = heap[a]
        /\ \A f \in LazyFieldNames :
              LazyMaps'[f] # LazyMaps[f] =>
                  /\ readers[1].pc = "assign"
                  /\ readers[1].field = f
                  /\ IsEmptyContainer(LazyMaps'[f], heap')
                  /\ \A g \in LazyFieldNames \ {f} : LazyMaps'[g] = LazyMaps[g]
        /\ ret' # ret => ret'.val = LazyMaps'[readers[1].field]
        /\ UNCHANGED otherFields

\* C14: with a single owner, each of the seven lazy accessors replaces a nil
\* field in place by an empty container on the first read, never replaces or
\* alters a field that is not nil, and returns the container the field holds, so
\* that every later read returns the same one and an entry written through a
\* returned map is seen by the later reads; a read through one accessor leaves
\* every other field of the spec as it is.
C14_LazyAccessors == [][OwnerStep]_vars /\ []OwnerHoldsField

\* The single owner read Annotations, nil at first, wrote an entry through the
\* map it got, and read Annotations again: the second read returned the same
\* map, with the entry in it.
C14_Witness ==
    /\ SingleOwner
    /\ ret.op = "GetAnnotations"
    /\ readers[1].calls = 2
    /\ readers[1].pc = "idle"
    /\ ~readers[1].wrote
    /\ ret.val = MapAt("Annotations", 1)
    /\ LazyMaps["Annotations"] = ret.val
    /\ heap[ret.val.addr] = {1}

\* The entry reader r wrote through the map it was returned is lost: the field
\* does not hold that map, or the map does not hold the entry.
LostWrite(r) ==
    /\ readers[r].wrote
    /\ \/ LazyMaps[readers[r].of] # readers[r].val
       \/ r \notin heap[LazyMaps[readers[r].of].addr]

\* C15: the lazy initialisation is not safe under concurrent readers: two
\* readers that both see the field nil each install a map, the map returned to
\* one of them is not the map the spec holds in the end, and the entry written
\* through it is lost (C15_Witness is such a state). No entry is lost when the
\* spec has a single owner.
C15_SingleOwnerLosesNothing ==
    SingleOwner => ~LostWrite(1)

\* Two readers called GetAnnotations on a nil field and both saw nil; reader 1
\* got the map it made and wrote through it, reader 2 then installed its map:
\* the field holds the map of reader 2, without the entry of reader 1.
C15_Witness ==
    /\ Len(readers) = 2
    /\ readers[1].of = "Annotations"
    /\ readers[1].val = MapAt("Annotations", 1)
    /\ LazyMaps["Annotations"] = MapAt("Annotations", 2)
    /\ LostWrite(1)
    /\ readers[2].pc = "idle"
    /\ readers[2].val = LazyMaps["Annotations"]

-----------------------------------------------------------------------------
(* Properties of GetTLSExpiryThreshold and GetVersion                      *)

\* The thresholds explored that are durations of Go's format, with what they
\* amount to in milliseconds.
DurationsInMs ==
    (<<"1", "6", "8", "h">> :> 604800000) @@ (<<"2", "4", "h">> :> 86400000)
    @@ (<<"1", "h", "3", "0", "m">> :> 5400000) @@ (<<"1", ".", "5", "h">> :> 5400000)
    @@ (<<"-", "1", "h">> :> (0 - 3600000)) @@ (<<"5", "0", "0", "m", "s">> :> 500) @@ (<<"0">> :> 0)

\* C18: GetTLSExpiryThreshold never fails: it returns a duration and no error,
\* the default of 168 hours when tlsExpiryThreshold is empty or is no duration
\* of Go's format (a number without unit, an unknown unit), the duration written
\* in every other case, and it leaves the field as it is.
C18_ThresholdOrDefault ==
    /\ [][ret'.op = "GetTLSExpiryThreshold" => UNCHANGED vault]_vars
    /\ [](ret.op = "GetTLSExpiryThreshold" =>
            /\ DOMAIN ret = {"op", "val"}
            /\ ret.val = IF TLSExpiryThreshold \in DOMAIN DurationsInMs
                         THEN DurationsInMs[TLSExpiryThreshold]
                         ELSE 168 * 60 * 60 * 1000)

\* The threshold 7d, a unit Go does not know: 168 hours are returned.
C18_Witness ==
    /\ ret.op = "GetTLSExpiryThreshold"
    /\ TLSExpiryThreshold = <<"7", "d">>
    /\ ret.val = 604800000

\* The images explored that are no reference of the grammar: no name, an
\* upper-case letter in the name, an empty tag, a digest too short, a tag with
\* a plus sign.
UnparsableImages ==
    {<<>>,
     <<"R", "e", "p", "o", "/", "I", "m", "a", "g", "e", ":", "1", ".", "2", ".", "3">>,
     <<"r", "e", "p", "o", "/", "i", "m", "a", "g", "e", ":">>,
     <<"r", "e", "p", "o", "/", "i", "m", "a", "g", "e", "@", "s", "h", "a", "2", "5", "6", ":", "a", "b", "c">>,
     <<"h", "a", "s", "h", "i", "c", "o", "r", "p", "/", "v", "a", "u", "l", "t", ":", "v", "1", ".", "2", ".", "3", "-", "r", "c", ".", "1", "+", "e", "n", "t">>}

\* The images explored that are a reference without a tag: a repository alone,
\* one with a port in its domain, one with a digest only, a bare identifier.
UntaggedImages ==
    {<<"r", "e", "p", "o", "/", "i", "m", "a", "g", "e">>,
     <<"l", "o", "c", "a", "l", "h", "o", "s", "t", ":", "5", "0", "0", "0", "/", "v", "a", "u", "l", "t">>,
     <<"r", "e", "p", "o", "/", "i", "m", "a", "g", "e", "@", "s", "h", "a", "2", "5", "6", ":">> \o Hex64,
     Hex64}

\* The images explored whose tag is no semantic version.
MalformedTagImages ==
    {<<"r", "e", "p", "o", "/", "i", "m", "a", "g", "e", ":", "l", "a", "t", "e", "s", "t">>,
     <<"g", "h", "c", "r", ".", "i", "o", "/", "v", "/", "v", "a", "u", "l", "t", ":", "1", ".", "2", ".", "3", ".", "4">>}

SemVer(major, minor, patch, pre, metadata) ==
    [major |-> major, minor |-> minor, patch |-> patch, pre |-> pre, metadata |-> metadata]

\* The images explored whose tag is a semantic version, with that version.
VersionOfImage ==
    (<<"r", "e", "p", "o", "/", "i", "m", "a", "g", "e", ":", "1", ".", "2", ".", "3">> :> SemVer(1, 2, 3, <<>>, <<>>))
    @@ (<<"v", "a", "u", "l", "t", ":", "1", ".", "1", "4">> :> SemVer(1, 14, 0, <<>>, <<>>))
    @@ (<<"h", "a", "s", "h", "i", "c", "o", "r", "p", "/", "v", "a", "u", "l", "t", ":", "v", "1", ".", "2", ".", "3", "-", "r", "c", ".", "1">> :> SemVer(1, 2, 3, <<"r", "c", ".", "1">>, <<>>))
    @@ ((<<"r", "e", "p", "o", "/", "i", "m", "a", "g", "e", ":", "1", ".", "2", ".", "3", "@", "s", "h", "a", "2", "5", "6", ":">> \o Hex64) :> SemVer(1, 2, 3, <<>>, <<>>))

\* C19: GetVersion fails with the invalid-reference error if the image is no
\* reference, with the missing-tag error if the reference has no tag (a reference
\* with a digest only included), and otherwise returns the tag read as a semantic
\* version, failing with the invalid-version error on a tag that is none:
\* repo/image:1.2.3 gives 1.2.3, repo/image the missing-tag error, repo/image:latest
\* the invalid-version error. The three errors are tested in that order and one
\* call gives one outcome.
C19_VersionOrError ==
    ret.op = "GetVersion" =>
        /\ Image \in UnparsableImages \cup UntaggedImages \cup MalformedTagImages
                     \cup DOMAIN VersionOfImage
        /\ Image \in UnparsableImages =>
              ret.err = "parsing image ref for Vault version" /\ ret.val = <<>>
        /\ Image \in UntaggedImages =>
              ret.err = "Vault image ref does not have a tag" /\ ret.val = <<>>
        /\ Image \in MalformedTagImages =>
              ret.err = "Invalid Semantic Version" /\ ret.val = <<>>
        /\ Image \in DOMAIN VersionOfImage =>
              ret.err = "" /\ ret.val = <<VersionOfImage[Image]>>

\* A reference with a digest and no tag: the missing-tag error.
C19_Witness ==
    /\ ret.op = "GetVersion"
    /\ Image = <<"r", "e", "p", "o", "/", "i", "m", "a", "g", "e", "@", "s", "h", "a", "2", "5", "6", ":">> \o Hex64
    /\ ret.err = "Vault image ref does not have a tag"
    /\ ret.val = <<>>

-----------------------------------------------------------------------------
(* GetIngress                                                              *)
(* An Ingress is a record of its Annotations (a pointer: <<>> for the nil  *)
(* map, <<f>> for the map f), the Rules and the DefaultBackend of its Spec. *)

getListener(raw) == ToStringMap(Index(GetVaultConfig(raw), "listener"))

IsTLSDisabled(raw) ==
    LET tcp == ToStringMap(Index(getListener(raw), "tcp"))
    IN  ToBool(Index(tcp, "tls_disable"))

\* The annotations GetIngress sets when TLS is not disabled.
TLSBackendAnnotations ==
    [k \in {"nginx.ingress.kubernetes.io/backend-protocol",
            "ingress.kubernetes.io/protocol",
            "ingress.kubernetes.io/secure-backends"} |->
        CASE k = "nginx.ingress.kubernetes.io/backend-protocol" -> "HTTPS"
          [] k = "ingress.kubernetes.io/protocol" -> "https"
          [] k = "ingress.kubernetes.io/secure-backends" -> "true"]

\* The backend GetIngress makes: the service named after the resource, port 8200.
VaultServiceBackend(name) == [Service |-> [Name |-> name, Port |-> [Number |-> 8200]]]

\* GetIngress setting each annotation only where the user has none under the key.
GetIngressUserFirst(ingress, name, tlsDisabled) ==
    IF ingress # <<>>
    THEN LET declared == ingress[1]
             annotations == IF declared.Annotations = <<>> THEN <<>> ELSE declared.Annotations[1]
         IN  <<[Annotations |->
                    <<IF ~tlsDisabled
                      THEN [k \in DOMAIN annotations \cup DOMAIN TLSBackendAnnotations |->
                               IF k \in DOMAIN annotations
                               THEN annotations[k] ELSE TLSBackendAnnotations[k]]
                      ELSE annotations>>,
                  Rules |-> declared.Rules,
                  DefaultBackend |->
                    IF Len(declared.Rules) = 0 /\ declared.DefaultBackend = <<>>
                    THEN <<VaultServiceBackend(name)>>
                    ELSE declared.DefaultBackend]>>
    ELSE <<>>

\* What vault.Spec.Ingress points at after GetIngress, which is what the call
\* returns.
GetIngressOf(ingress, name, tlsDisabled) ==
    IF ingress # <<>>
    THEN LET declared == ingress[1]
             annotations == IF declared.Annotations = <<>> THEN <<>> ELSE declared.Annotations[1]
         IN  <<[Annotations |->
                    <<IF ~tlsDisabled
                      THEN [k \in DOMAIN annotations \cup DOMAIN TLSBackendAnnotations |->
                               IF k \in DOMAIN TLSBackendAnnotations
                               THEN TLSBackendAnnotations[k] ELSE annotations[k]]
                      ELSE annotations>>,
                  Rules |-> declared.Rules,
                  DefaultBackend |->
                    IF Len(declared.Rules) = 0 /\ declared.DefaultBackend = <<>>
                    THEN <<VaultServiceBackend(name)>>
                    ELSE declared.DefaultBackend]>>
    ELSE <<>>

\* What tls_disable may hold in the listeners explored. (No number: how cast
\* reads a float64 as a bool differs between its versions.)
TLSDisableValues ==
    {JBool(TRUE), JBool(FALSE), JStr("true"), JStr("1"), JStr("false"), JStr("yes"), JNull}

\* The listener stanzas explored.
ListenerStanzas ==
    {JOther, JMap(EmptyMap), JMap(One("tcp", JOther)), JMap(One("tcp", JMap(EmptyMap))),
     JMap(One("unix", JMap(One("tls_disable", JBool(TRUE)))))}
    \cup {JMap(One("tcp", JMap(One("tls_disable", v)))) : v \in TLSDisableValues}

ListenerDocuments ==
    {JOther, EmptyDocument} \cup {JMap(One("listener", l)) : l \in ListenerStanzas}

\* The annotations a user may declare on the ingress.
UserAnnotations ==
    {<<>>,
     One("team", "platform"),
     Two("team", "platform", "nginx.ingress.kubernetes.io/backend-protocol", "GRPC"),
     Two("ingress.kubernetes.io/protocol", "https", "ingress.kubernetes.io/secure-backends", "false")}

IngressValues ==
    [Annotations : Optional(UserAnnotations),
     Rules : {<<>>, <<"vault.example.com">>},
     DefaultBackend : Optional({[Service |-> [Name |-> "proxy", Port |-> [Number |-> 443]]]})]

InitIngress ==
    /\ Config \in ListenerDocuments
    /\ UnsealCfg = ZeroUnsealConfig
    /\ Name \in {"vault", "my-vault"}
    /\ Namespace = "default"
    /\ NoResolveFields
    /\ Ingress \in Optional(IngressValues)
    /\ NoLazyMaps
    /\ ret = NoCall

GetIngress ==
    /\ Ingress' = GetIngressOf(Ingress, Name, IsTLSDisabled(Config))
    /\ ret' = [op |-> "GetIngress", val |-> Ingress']
    /\ UNCHANGED <<Config, UnsealCfg, Name, Namespace, ServiceRegistrationEnabled, Image,
                   TLSExpiryThreshold, LazyMaps, heap, readers>>

NextIngress == GetIngress

SpecIngress == InitIngress /\ [][NextIngress]_vars

-----------------------------------------------------------------------------
(* Properties of GetIngress                                                *)

\* The listener stanza disables TLS: tcp.tls_disable holds true, or a string
\* that reads as true.
TLSDisabledInListener ==
    \E v \in {JBool(TRUE), JStr("true"), JStr("1")} :
        Config = JMap(One("listener", JMap(One("tcp", JMap(One("tls_disable", v))))))

\* The annotations of an ingress, the nil map read as the empty one.
AnnotationsOf(ingress) ==
    IF ingress.Annotations = <<>> THEN <<>> ELSE ingress.Annotations[1]

HasTLSBackendAnnotations(ingress) ==
    \A k \in DOMAIN TLSBackendAnnotations :
        /\ k \in DOMAIN AnnotationsOf(ingress)
        /\ AnnotationsOf(ingress)[k] = TLSBackendAnnotations[k]

\* What one call of GetIngress does to a declared ingress.
IngressPost(before, after, name) ==
    /\ after.Rules = before.Rules
    /\ IF before.Rules = <<>> /\ before.DefaultBackend = <<>>
       THEN after.DefaultBackend =
                <<[Service |-> [Name |-> name, Port |-> [Number |-> 8200]]]>>
       ELSE after.DefaultBackend = before.DefaultBackend
    /\ IF TLSDisabledInListener
       THEN AnnotationsOf(after) = AnnotationsOf(before)
       ELSE /\ HasTLSBackendAnnotations(after)
            /\ DOMAIN AnnotationsOf(after) =
                   DOMAIN AnnotationsOf(before) \cup DOMAIN TLSBackendAnnotations
    /\ \A k \in DOMAIN AnnotationsOf(before) \ DOMAIN TLSBackendAnnotations :
           /\ k \in DOMAIN AnnotationsOf(after)
           /\ AnnotationsOf(after)[k] = AnnotationsOf(before)[k]

\* C16: GetIngress returns nil and changes nothing when no ingress is
\* declared; otherwise it returns the declared ingress, with a default backend
\* at the service named after the resource on port 8200 made exactly when no
\* rule and no default backend is declared, with the three TLS annotations set
\* (over whatever the user put under these keys) exactly when the listener
\* does not disable TLS, and with every other annotation of the user kept.
C16_GetIngress ==
    [][ret'.op = "GetIngress" =>
          IF Ingress = <<>>
          THEN ret'.val = <<>> /\ UNCHANGED vault
          ELSE /\ ret'.val = Ingress'
               /\ Ingress' # <<>>
               /\ IngressPost(Ingress[1], Ingress'[1], Name)
               /\ UNCHANGED <<Config, Name>>]_vars

\* A call made a backend for the resource, overwrote a user's annotation under
\* one of the three keys and kept the user's own key.
C16_Witness ==
    /\ ret.op = "GetIngress"
    /\ ret.val # <<>>
    /\ ret.val[1].DefaultBackend = <<VaultServiceBackend("my-vault")>>
    /\ ret.val[1].Annotations =
           <<[k \in DOMAIN TLSBackendAnnotations \cup {"team"} |->
                 IF k = "team" THEN "platform" ELSE TLSBackendAnnotations[k]]>>
    /\ Config = JMap(One("listener", JMap(One("tcp", JMap(One("tls_disable", JStr("yes")))))))

-----------------------------------------------------------------------------
(* GetIngress over a resource whose listener changes                        *)

\* The user's annotations that use none of the keys GetIngress writes.
OwnKeyAnnotations ==
    {a \in UserAnnotations : DOMAIN a \cap DOMAIN TLSBackendAnnotations = {}}

InitIngressTLS ==
    /\ Config \in ListenerDocuments
    /\ UnsealCfg = ZeroUnsealConfig
    /\ Name \in {"vault", "my-vault"}
    /\ Namespace = "default"
    /\ NoResolveFields
    /\ Ingress \in Optional({i \in IngressValues :
                                i.Annotations \in Optional(OwnKeyAnnotations)})
    /\ NoLazyMaps
    /\ ret = NoCall

\* The holder of the resource gives tls_disable of the tcp listener another
\* value; nothing else of the resource is touched.
SetTLSDisable ==
    /\ \E v \in TLSDisableValues :
           Config' = JMap(One("listener", JMap(One("tcp", JMap(One("tls_disable", v))))))
    /\ Config' # Config
    /\ ret' = [op |-> "SetTLSDisable", val |-> Ingress]
    /\ UNCHANGED <<UnsealCfg, Name, Namespace, ServiceRegistrationEnabled, Image,
                   TLSExpiryThreshold, Ingress, LazyMaps, heap, readers>>

NextIngressTLS ==
    \/ GetIngress
    \/ SetTLSDisable

SpecIngressTLS == InitIngressTLS /\ [][NextIngressTLS]_vars

\* C21: whenever GetIngress has just returned the declared ingress of a
\* resource whose user annotations use none of the three keys, the result
\* holds the three TLS annotations exactly when the listener does not disable
\* TLS at that call, whatever calls and changes of tls_disable came before.
C21_AnnotationsFollowTLS ==
    (ret.op = "GetIngress" /\ ret.val # <<>>) =>
        (HasTLSBackendAnnotations(ret.val[1]) <=> ~TLSDisabledInListener)

\* The half that holds: a call made while TLS is not disabled returns the
\* three annotations.
C21_TLSOnSetsAnnotations ==
    (ret.op = "GetIngress" /\ ret.val # <<>> /\ ~TLSDisabledInListener) =>
        HasTLSBackendAnnotations(ret.val[1])

\* What a call leaves behind stays: the annotations of the stored ingress
\* never lose a key, under any step.
C21_AnnotationsStay ==
    [][Ingress # <<>> =>
          /\ Ingress' # <<>>
          /\ DOMAIN AnnotationsOf(Ingress[1]) \subseteq DOMAIN AnnotationsOf(Ingress'[1])]_vars

====
